---- MODULE Spec2Model ----
(***************************************************************************)
(* A model of the session / statement machinery of gorm (gorm.go) and of   *)
(* the default callback pipelines (package callbacks).                    *)
(*                                                                         *)
(* Go pointers are modelled as indexes into growing tables: dbs, cfgs,     *)
(* stmts and pools (pointers to DB, Config, Statement; ConnPool values).   *)
(* Index 0 is the nil pointer.                                             *)
(***************************************************************************)
EXTENDS Integers, Sequences, FiniteSets, TLC

VARIABLES
    dbs,         \* table of DB values          (gorm.go, type DB)
    cfgs,        \* table of Config values      (gorm.go, type Config)
    stmts,       \* table of Statement values
    pools,       \* table of ConnPool values
    cacheStore,  \* Config.cacheStore[preparedStmtDBKey]: 0 or a pool index
    Plugins,     \* Config.Plugins: plugin name -> registered plugin (0: none)
    initCalls,   \* how often each plugin's Initialize was called
    txns,        \* the driver transactions begun on the pools
    log,         \* the statements sent to the pools, in order
    stack,       \* the pipeline runs in progress, innermost last
    calls,       \* calls made so far
    ret          \* the last call made and what it returned

vars == <<dbs, cfgs, stmts, pools, cacheStore, Plugins, initCalls, txns, log,
          stack, calls, ret>>

----------------------------------------------------------------------------
\* Bounds of the model.

\* calls made in one run of the chain methods
MaxCalls == 3
\* calls made in one run of Session
MaxSessions == 2
\* calls made in one run of AddError
MaxErrCalls == 4
\* Initialize calls per plugin
MaxInit == 2
\* calls made in one run of the pipelines
MaxOps == 2
\* the longest slice of records a finisher is given
MaxElems == 2

----------------------------------------------------------------------------
\* Values.

Background == 1
Contexts == {2}
DefaultLogger == 1
DefaultNowFunc == 1

Keys == {"k1", "k2"}
Values == {1}

\* error values: msg is the text (one entry per "; "-separated part), is is
\* the set of errors the Unwrap chain reaches (errors.Is)
Nil == [msg |-> <<>>, is |-> {}]
Err(e) == [msg |-> <<e>>, is |-> {e}]

\* the zero Statement
ZeroStatement ==
    [DB |-> 0, ConnPool |-> 0, Context |-> 0, SkipHooks |-> FALSE,
     Settings |-> {}, Clauses |-> {}, Vars |-> <<>>, SQL |-> <<>>,
     Dest |-> "", Schema |-> "", Preloads |-> FALSE, CurDestIndex |-> 0]

\* the zero Config
ZeroConfig ==
    [SkipDefaultTransaction |-> FALSE, FullSaveAssociations |-> FALSE,
     Logger |-> 0, NowFunc |-> 0, DryRun |-> FALSE, PrepareStmt |-> FALSE,
     DisableNestedTransaction |-> FALSE, AllowGlobalUpdate |-> FALSE,
     QueryFields |-> FALSE, CreateBatchSize |-> 0, TranslateError |-> FALSE,
     ConnPool |-> 0, Dialector |-> "plain"]

\* the zero Session
ZeroSession ==
    [DryRun |-> FALSE, PrepareStmt |-> FALSE, NewDB |-> FALSE,
     Initialized |-> FALSE, SkipHooks |-> FALSE,
     SkipDefaultTransaction |-> FALSE, DisableNestedTransaction |-> FALSE,
     AllowGlobalUpdate |-> FALSE, FullSaveAssociations |-> FALSE,
     QueryFields |-> FALSE, Context |-> 0, Logger |-> 0, NowFunc |-> 0,
     CreateBatchSize |-> 0]

\* the heap as one value, for the operators that transform it
Heap == [dbs |-> dbs, cfgs |-> cfgs, stmts |-> stmts, pools |-> pools,
         cacheStore |-> cacheStore, txns |-> txns, log |-> log]

\* F(v) for the value v of x: x is evaluated once, however often F uses it
Let(x, F(_)) == CHOOSE r \in {F(v) : v \in {x}} : TRUE

Install(H) ==
    \E h \in {H} :
        /\ dbs' = h.dbs
        /\ cfgs' = h.cfgs
        /\ stmts' = h.stmts
        /\ pools' = h.pools
        /\ cacheStore' = h.cacheStore
        /\ txns' = h.txns
        /\ log' = h.log

----------------------------------------------------------------------------
\* Connection pools.

\* *sql.DB, or a driver pool
RawPool == [kind |-> "db", inner |-> 0, cache |-> 0, txn |-> 0]

\* the ConnPool value is a Tx (interface Tx: ConnPool + Commit/Rollback)
IsTx(p) == p.kind \in {"tx", "preptx"}

\* NewPreparedStmtDB(connPool): a wrapper with a map and a mutex of its own;
\* at is the index the wrapper gets, which names its map and mutex
NewPreparedStmtDB(connPool, at) ==
    [kind |-> "prep", inner |-> connPool, cache |-> at, txn |-> 0]

----------------------------------------------------------------------------
\* Open: the root DB.

OpenConfigs ==
    { [ZeroConfig EXCEPT !.Logger = DefaultLogger, !.NowFunc = DefaultNowFunc],
      [ZeroConfig EXCEPT !.Logger = DefaultLogger, !.NowFunc = DefaultNowFunc,
                         !.TranslateError = TRUE, !.Dialector = "translator"],
      [ZeroConfig EXCEPT !.Logger = DefaultLogger, !.NowFunc = DefaultNowFunc,
                         !.PrepareStmt = TRUE] }

\* the tables after Open(dialector, config): the dialector's Initialize has
\* set config.ConnPool to pool 1
Open(config) ==
    LET pl == IF config.PrepareStmt
              THEN <<RawPool, NewPreparedStmtDB(1, 2)>>
              ELSE <<RawPool>>
        cp == Len(pl)
    IN  [dbs |-> << [Config |-> 1, Error |-> Nil, RowsAffected |-> 0,
                     Statement |-> 1, clone |-> 1] >>,
         cfgs |-> << [config EXCEPT !.ConnPool = cp] >>,
         stmts |-> << [ZeroStatement EXCEPT !.DB = 1, !.ConnPool = cp,
                                            !.Context = Background] >>,
         pools |-> pl,
         cacheStore |-> IF config.PrepareStmt THEN 2 ELSE 0,
         txns |-> <<>>,
         log |-> <<>>]

----------------------------------------------------------------------------
\* getInstance.

\* Statement.clone(): a copy of every field of the statement
StatementClone(stmt) ==
    [DB |-> stmt.DB, ConnPool |-> stmt.ConnPool, Context |-> stmt.Context,
     SkipHooks |-> stmt.SkipHooks, Settings |-> stmt.Settings,
     Clauses |-> stmt.Clauses, Vars |-> stmt.Vars, SQL |-> stmt.SQL,
     Dest |-> stmt.Dest, Schema |-> stmt.Schema, Preloads |-> stmt.Preloads,
     CurDestIndex |-> stmt.CurDestIndex]

\* mutant: the new statement also keeps the parent's clauses and settings
FreshStatement_keeps(tx, parent) ==
    [ZeroStatement EXCEPT !.DB = tx, !.ConnPool = parent.ConnPool,
                          !.Context = parent.Context,
                          !.Clauses = parent.Clauses,
                          !.Settings = parent.Settings]

\* the statement getInstance makes for clone == 1
FreshStatement(tx, parent) ==
    [ZeroStatement EXCEPT !.DB = tx, !.ConnPool = parent.ConnPool,
                          !.Context = parent.Context]

\* mutant: the DB getInstance returns keeps the receiver's clone-state
NewInstance_keepsClone(db, sid) ==
    [Config |-> db.Config, Error |-> db.Error, RowsAffected |-> 0,
     Statement |-> sid, clone |-> db.clone]

\* tx := &DB{Config: db.Config, Error: db.Error}
NewInstance(db, sid) ==
    [Config |-> db.Config, Error |-> db.Error, RowsAffected |-> 0,
     Statement |-> sid, clone |-> 0]

\* mutant: clone-state 2 shares the receiver's statement
InstanceStatement_shared(H, d, tx) ==
    IF H.dbs[d].clone = 1
    THEN [H |-> [H EXCEPT !.stmts = Append(@, FreshStatement(tx, H.stmts[H.dbs[d].Statement]))],
          sid |-> Len(H.stmts) + 1]
    ELSE [H |-> H, sid |-> H.dbs[d].Statement]

\* the statement of the new instance: a new statement (clone == 1) or a
\* clone of the receiver's, owned by tx
InstanceStatement(H, d, tx) ==
    LET parent == H.stmts[H.dbs[d].Statement]
        st == IF H.dbs[d].clone = 1
              THEN FreshStatement(tx, parent)
              ELSE [StatementClone(parent) EXCEPT !.DB = tx]
    IN  [H |-> [H EXCEPT !.stmts = Append(@, st)], sid |-> Len(H.stmts) + 1]

\* a variant that hands the receiver out whatever its clone-state
getInstance_self(H, d) == [H |-> H, res |-> d]

\* db.getInstance(): the heap after the call and the DB returned
getInstance(H, d) ==
    IF H.dbs[d].clone > 0
    THEN LET tx == Len(H.dbs) + 1
             S == InstanceStatement(H, d, tx)
         IN  [H |-> [S.H EXCEPT !.dbs = Append(@, NewInstance(H.dbs[d], S.sid))],
              res |-> tx]
    ELSE [H |-> H, res |-> d]


----------------------------------------------------------------------------
\* Session.

\* mutant: the session works on the receiver's Config instead of on a copy
SessionAlloc_sharedConfig(H, d) ==
    [H EXCEPT !.dbs = Append(@, [Config |-> H.dbs[d].Config,
                                 Statement |-> H.dbs[d].Statement,
                                 Error |-> H.dbs[d].Error,
                                 RowsAffected |-> 0, clone |-> 1])]

\* txConfig = *db.Config; tx = &DB{Config: &txConfig, Statement:
\* db.Statement, Error: db.Error, clone: 1}
SessionAlloc(H, d) ==
    [H EXCEPT !.cfgs = Append(@, H.cfgs[H.dbs[d].Config]),
              !.dbs = Append(@, [Config |-> Len(H.cfgs) + 1,
                                 Statement |-> H.dbs[d].Statement,
                                 Error |-> H.dbs[d].Error,
                                 RowsAffected |-> 0, clone |-> 1])]

\* the options applied to the copied Config before the statement is touched
SessionOptionsA(c, config) ==
    [c EXCEPT
       !.CreateBatchSize = IF config.CreateBatchSize > 0
                           THEN config.CreateBatchSize ELSE @,
       !.SkipDefaultTransaction = IF config.SkipDefaultTransaction THEN TRUE ELSE @,
       !.AllowGlobalUpdate = IF config.AllowGlobalUpdate THEN TRUE ELSE @,
       !.FullSaveAssociations = IF config.FullSaveAssociations THEN TRUE ELSE @]

\* the options applied after it
SessionOptionsB(c, config) ==
    [c EXCEPT
       !.DisableNestedTransaction = IF config.DisableNestedTransaction THEN TRUE ELSE @,
       !.DryRun = IF config.DryRun THEN TRUE ELSE @,
       !.QueryFields = IF config.QueryFields THEN TRUE ELSE @,
       !.Logger = IF config.Logger # 0 THEN config.Logger ELSE @,
       !.NowFunc = IF config.NowFunc # 0 THEN config.NowFunc ELSE @]

\* if Context, PrepareStmt or SkipHooks is given the session gets a clone of
\* the statement; a given Context is stored on the clone
SessionStatement(H, tx, config) ==
    LET H1 == IF config.Context # 0 \/ config.PrepareStmt \/ config.SkipHooks
              THEN [H EXCEPT
                      !.stmts = Append(@, [StatementClone(H.stmts[H.dbs[tx].Statement])
                                             EXCEPT !.DB = tx]),
                      !.dbs[tx].Statement = Len(H.stmts) + 1]
              ELSE H
        sid == H1.dbs[tx].Statement
    IN  IF config.Context # 0
        THEN [H1 EXCEPT !.stmts[sid].Context = config.Context]
        ELSE H1

\* the PrepareStmt block after db.cacheStore.Load(preparedStmtDBKey) has
\* given v (0: no value): d is the receiver, tx the session. A value that
\* was loaded is used; without one a new PreparedStmtDB is made and stored
SessionPrepareStmtWith(H, d, tx, v) ==
    LET dbPool == H.cfgs[H.dbs[d].Config].ConnPool
        H1 == IF v # 0
              THEN H
              ELSE [H EXCEPT !.pools = Append(@, NewPreparedStmtDB(dbPool, Len(H.pools) + 1)),
                             !.cacheStore = Len(H.pools) + 1]
        preparedStmt == H1.pools[IF v # 0 THEN v ELSE H1.cacheStore]
        sid == H1.dbs[tx].Statement
        cur == H1.stmts[sid].ConnPool
        wrapper == IF IsTx(H1.pools[cur])
                   THEN [kind |-> "preptx", inner |-> cur,
                         cache |-> preparedStmt.cache, txn |-> H1.pools[cur].txn]
                   ELSE [kind |-> "prep", inner |-> dbPool,
                         cache |-> preparedStmt.cache, txn |-> 0]
        pid == Len(H1.pools) + 1
    IN  [H1 EXCEPT !.pools = Append(@, wrapper),
                   !.stmts[sid].ConnPool = pid,
                   !.cfgs[H1.dbs[tx].Config].ConnPool = pid,
                   !.cfgs[H1.dbs[tx].Config].PrepareStmt = TRUE]

\* db.Session(config) up to the PrepareStmt block: the heap with the session
\* as its last DB
SessionBegin(H, d, config) ==
    LET tx == Len(H.dbs) + 1
        H1 == SessionAlloc(H, d)
        c == H1.dbs[tx].Config
        H2 == [H1 EXCEPT !.cfgs[c] = SessionOptionsA(@, config)]
    IN  SessionStatement(H2, tx, config)

\* db.Session(config) from the PrepareStmt block on, v being what
\* db.cacheStore.Load gave: the heap after the call and the DB returned
SessionEnd(H3, d, tx, config, v) ==
    LET c == H3.dbs[tx].Config
        H4 == IF config.PrepareStmt
              THEN SessionPrepareStmtWith(H3, d, tx, v) ELSE H3
        H5 == IF config.SkipHooks
              THEN [H4 EXCEPT !.stmts[H4.dbs[tx].Statement].SkipHooks = TRUE]
              ELSE H4
        H6 == [H5 EXCEPT !.cfgs[c] = SessionOptionsB(@, config),
                         !.dbs[tx].clone = IF config.NewDB THEN 1 ELSE 2]
    IN  IF config.Initialized
        THEN getInstance(H6, tx)
        ELSE [H |-> H6, res |-> tx]

\* db.Session(config): the heap after the call and the DB returned
Session(H, d, config) ==
    Let(SessionBegin(H, d, config), LAMBDA H3 :
        SessionEnd(H3, d, Len(H.dbs) + 1, config, H3.cacheStore))

\* db.WithContext(ctx)
WithContext(H, d, ctx) == Session(H, d, [ZeroSession EXCEPT !.Context = ctx])

\* Logger.LogMode(logger.Info): a logger of its own per base logger
LogMode(l) == IF l <= 2 THEN l + 2 ELSE l

\* db.Debug()
Debug(H, d) ==
    LET G == getInstance(H, d)
    IN  Session(G.H, G.res,
                [ZeroSession EXCEPT !.Logger = LogMode(H.cfgs[H.dbs[d].Config].Logger)])


----------------------------------------------------------------------------
\* Settings, errors, plugins.

\* sync.Map Store / Load on a statement's Settings; a key is <<ptr, name>>,
\* ptr being 0 for Set/Get and the statement's address for InstanceSet/Get
Store(settings, key, value) ==
    {e \in settings : e.key # key} \cup {[key |-> key, value |-> value]}

Load(settings, key) ==
    IF \E e \in settings : e.key = key
    THEN (CHOOSE e \in settings : e.key = key).value
    ELSE 0

\* db.Set(key, value)
Set(H, d, key, value) ==
    LET G == getInstance(H, d)
        sid == G.H.dbs[G.res].Statement
    IN  [H |-> [G.H EXCEPT !.stmts[sid].Settings = Store(@, <<0, key>>, value)],
         res |-> G.res]

\* tx.Statement.Settings.Store(key, value) on the instance Set obtained
SetStore(H, tx, key, value) ==
    [H EXCEPT !.stmts[H.dbs[tx].Statement].Settings =
                  Store(@, <<0, key>>, value)]

\* tx.Statement.Settings.Store on the instance InstanceSet obtained
InstanceSetStore(H, tx, key, value) ==
    [H EXCEPT !.stmts[H.dbs[tx].Statement].Settings =
                  Store(@, <<H.dbs[tx].Statement, key>>, value)]

\* db.Get(key)
Get(H, d, key) == Load(H.stmts[H.dbs[d].Statement].Settings, <<0, key>>)

\* db.InstanceSet(key, value)
InstanceSet(H, d, key, value) ==
    LET G == getInstance(H, d)
        sid == G.H.dbs[G.res].Statement
    IN  [H |-> [G.H EXCEPT !.stmts[sid].Settings = Store(@, <<sid, key>>, value)],
         res |-> G.res]

\* db.InstanceGet(key)
InstanceGet(H, d, key) ==
    Load(H.stmts[H.dbs[d].Statement].Settings, <<H.dbs[d].Statement, key>>)

\* db.Clauses(c): a chain method; it adds the clause to the statement of
\* the instance it obtains
Clauses(H, d, c) ==
    LET G == getInstance(H, d)
        sid == G.H.dbs[G.res].Statement
    IN  [H |-> [G.H EXCEPT !.stmts[sid].Clauses = @ \cup {c}], res |-> G.res]

\* ErrorTranslator.Translate of the dialector: it knows one driver error
Translate(config, err) ==
    IF config.TranslateError /\ config.Dialector = "translator"
       /\ err = Err("driver_dup")
    THEN Err("ErrDuplicatedKey")
    ELSE err

\* mutant: the new error comes first in the text
Chain_newFirst(old, err) ==
    IF old = Nil THEN err
    ELSE [msg |-> err.msg \o old.msg, is |-> err.is]

\* fmt.Errorf("%v; %w", db.Error, err), or err itself on a DB without error
Chain(old, err) ==
    IF old = Nil THEN err
    ELSE [msg |-> old.msg \o err.msg, is |-> err.is]

\* db.AddError(err): the heap after the call
AddError(H, d, err) ==
    IF err # Nil
    THEN [H EXCEPT !.dbs[d].Error = Chain(@, Translate(H.cfgs[H.dbs[d].Config], err))]
    ELSE H

\* the plugins offered to Use: two names, two plugins each
PluginSet == { [name |-> "p", id |-> 1], [name |-> "p", id |-> 2],
               [name |-> "q", id |-> 3], [name |-> "q", id |-> 4] }
PluginNames == {"p", "q"}

\* mutant: a second plugin of the same name replaces the first
UseRegistered_never(reg, plugin) == FALSE

\* _, ok := db.Plugins[name]
UseRegistered(reg, plugin) == reg[plugin.name] # 0


----------------------------------------------------------------------------
\* The session machine: calls made on the DB values that exist.

\* the Session configs that decide how the statement is treated
ChainSessionInputs ==
    { [ZeroSession EXCEPT !.NewDB = n, !.Initialized = i] :
        n \in BOOLEAN, i \in BOOLEAN }
    \cup { [ZeroSession EXCEPT !.SkipHooks = TRUE] }

\* Session configs: the above with SkipHooks and Context, PrepareStmt, and
\* each Config option alone
SessionInputs ==
    { [ZeroSession EXCEPT !.NewDB = n, !.Initialized = i, !.SkipHooks = h,
                          !.Context = c] :
        n \in BOOLEAN, i \in BOOLEAN, h \in BOOLEAN, c \in {0} \cup Contexts }
    \cup { [ZeroSession EXCEPT !.PrepareStmt = TRUE, !.NewDB = n] : n \in BOOLEAN }
    \cup { [ZeroSession EXCEPT !.DryRun = TRUE],
           [ZeroSession EXCEPT !.SkipDefaultTransaction = TRUE],
           [ZeroSession EXCEPT !.DisableNestedTransaction = TRUE],
           [ZeroSession EXCEPT !.AllowGlobalUpdate = TRUE],
           [ZeroSession EXCEPT !.FullSaveAssociations = TRUE],
           [ZeroSession EXCEPT !.QueryFields = TRUE],
           [ZeroSession EXCEPT !.Logger = 2],
           [ZeroSession EXCEPT !.NowFunc = 2],
           [ZeroSession EXCEPT !.CreateBatchSize = -1],
           [ZeroSession EXCEPT !.CreateBatchSize = 1],
           [ZeroSession EXCEPT !.CreateBatchSize = 2] }

ErrorInputs == {Nil, Err("e1"), Err("driver_dup")}

ClauseNames == {"WHERE"}

Init ==
    /\ \E config \in OpenConfigs :
         LET H == Open(config)
         IN  /\ dbs = H.dbs
             /\ cfgs = H.cfgs
             /\ stmts = H.stmts
             /\ pools = H.pools
             /\ cacheStore = H.cacheStore
             /\ txns = H.txns
             /\ log = H.log
    /\ stack = <<>>
    /\ Plugins = [n \in PluginNames |-> 0]
    /\ initCalls = [p \in PluginSet |-> 0]
    /\ calls = 0
    /\ ret = [op |-> "Open", recv |-> 0, res |-> 1, arg |-> 0]

\* a call that returns a DB, while fewer than max calls were made
Returns(op, d, R, arg, max) ==
    /\ calls < max
    /\ calls' = calls + 1
    /\ \E r \in {R} :
         /\ Install(r.H)
         /\ ret' = [op |-> op, recv |-> d, res |-> r.res, arg |-> arg]
    /\ UNCHANGED <<Plugins, initCalls, stack>>

SessionCall(inputs, max) ==
    \E d \in DOMAIN dbs, config \in inputs :
        Returns("Session", d, Session(Heap, d, config), config, max)

WithContextCall(max) ==
    \E d \in DOMAIN dbs, ctx \in Contexts :
        Returns("WithContext", d, WithContext(Heap, d, ctx), ctx, max)

DebugCall ==
    \E d \in DOMAIN dbs : Returns("Debug", d, Debug(Heap, d), 0, MaxCalls)

GetInstanceCall(max) ==
    \E d \in DOMAIN dbs :
        Returns("getInstance", d, getInstance(Heap, d), 0, max)

SetCall ==
    \E d \in DOMAIN dbs, k \in Keys, v \in Values :
        Returns("Set", d, Set(Heap, d, k, v), <<k, v>>, MaxCalls)

InstanceSetCall ==
    \E d \in DOMAIN dbs, k \in Keys, v \in Values :
        Returns("InstanceSet", d, InstanceSet(Heap, d, k, v), <<k, v>>, MaxCalls)

ClausesCall ==
    \E d \in DOMAIN dbs, c \in ClauseNames :
        Returns("Clauses", d, Clauses(Heap, d, c), c, MaxCalls)

AddErrorCall ==
    \E d \in DOMAIN dbs, err \in ErrorInputs :
        Returns("AddError", d, [H |-> AddError(Heap, d, err), res |-> d], err,
                MaxErrCalls)

\* db.Use(plugin); initOK is whether plugin.Initialize(db) returns nil
UseCall ==
    \E plugin \in PluginSet, initOK \in BOOLEAN :
        /\ IF UseRegistered(Plugins, plugin)
           THEN /\ ret' = [op |-> "Use", recv |-> 1, res |-> Err("ErrRegistered"),
                           arg |-> plugin]
                /\ UNCHANGED <<Plugins, initCalls>>
           ELSE /\ initCalls[plugin] < MaxInit
                /\ initCalls' = [initCalls EXCEPT ![plugin] = @ + 1]
                /\ IF initOK
                   THEN /\ Plugins' = [Plugins EXCEPT ![plugin.name] = plugin.id]
                        /\ ret' = [op |-> "Use", recv |-> 1, res |-> Nil,
                                   arg |-> plugin]
                   ELSE /\ UNCHANGED Plugins
                        /\ ret' = [op |-> "Use", recv |-> 1,
                                   res |-> Err("init failed"), arg |-> plugin]
        /\ UNCHANGED <<dbs, cfgs, stmts, pools, cacheStore, txns, log, stack,
                       calls>>

\* the chain methods
Next ==
    \/ SessionCall(ChainSessionInputs, MaxCalls)
    \/ WithContextCall(MaxCalls)
    \/ DebugCall
    \/ GetInstanceCall(MaxCalls)
    \/ SetCall
    \/ InstanceSetCall
    \/ ClausesCall

Spec == Init /\ [][Next]_vars

\* Session with every option
NextSession ==
    \/ SessionCall(SessionInputs, MaxSessions)
    \/ WithContextCall(MaxSessions)

SpecSession == Init /\ [][NextSession]_vars

\* AddError on the DBs of a chain
NextError ==
    \/ AddErrorCall
    \/ GetInstanceCall(MaxErrCalls)
    \/ SessionCall({ZeroSession}, MaxErrCalls)

SpecError == Init /\ [][NextError]_vars

\* the plugin registry
NextPlugins == UseCall

SpecPlugins == Init /\ [][NextPlugins]_vars

----------------------------------------------------------------------------
\* Properties of the session machine.

\* C1: getInstance on a DB with clone-state 0 returns the same DB and a
\* following Set edits its statement in place; with clone-state 1 it returns
\* a new DB with clone-state 0 whose statement has only the parent's conn
\* pool and context; with clone-state 2 a new DB with clone-state 0 whose
\* statement is a copy of the parent's.  In states 1 and 2 nothing that
\* existed changes and the new DB has the receiver's config and error.
C1_GetInstance ==
    [][ /\ ret'.op = "getInstance" =>
            LET d == ret'.recv
                tx == ret'.res
                parent == stmts[dbs[d].Statement]
            IN  /\ dbs[d].clone = 0 => tx = d /\ dbs' = dbs /\ stmts' = stmts
                /\ dbs[d].clone >= 1 =>
                     /\ tx = Len(dbs) + 1 /\ Len(dbs') = tx
                     /\ dbs'[tx].clone = 0
                     /\ dbs'[tx].Config = dbs[d].Config
                     /\ dbs'[tx].Error = dbs[d].Error
                     /\ dbs'[tx].Statement = Len(stmts) + 1
                     /\ \A x \in DOMAIN dbs : dbs'[x] = dbs[x]
                     /\ \A x \in DOMAIN stmts : stmts'[x] = stmts[x]
                     /\ cfgs' = cfgs
                /\ dbs[d].clone = 1 =>
                     stmts'[dbs'[tx].Statement] =
                        [ZeroStatement EXCEPT !.DB = tx,
                                              !.ConnPool = parent.ConnPool,
                                              !.Context = parent.Context]
                /\ dbs[d].clone = 2 =>
                     stmts'[dbs'[tx].Statement] = [parent EXCEPT !.DB = tx]
        /\ ret'.op = "Set" /\ dbs[ret'.recv].clone = 0 =>
            /\ ret'.res = ret'.recv
            /\ dbs' = dbs
            /\ stmts' = [stmts EXCEPT ![dbs[ret'.recv].Statement].Settings =
                            Store(@, <<0, ret'.arg[1]>>, ret'.arg[2])]
      ]_vars

\* a DB with clone-state 1 whose statement holds clauses got a new instance
C1_Witness ==
    /\ ret.op = "getInstance"
    /\ ret.res # ret.recv
    /\ dbs[ret.recv].clone = 1
    /\ stmts[dbs[ret.recv].Statement].Clauses # {}
    /\ stmts[dbs[ret.res].Statement].Clauses = {}

ChainMethods == {"Set", "InstanceSet", "Session", "WithContext", "Debug"}

\* C2 as stated: every DB a chain-style method returns has clone-state >= 1
C2_Original == ret.op \in ChainMethods => dbs[ret.res].clone >= 1

\* C2, amended: Session without Initialized, WithContext and Debug return
\* a DB with clone-state 2 (1 with NewDB); Set, InstanceSet and Session
\* with Initialized return the instance getInstance made: clone-state 0
C2_ReturnedCloneState ==
    /\ ret.op \in {"WithContext", "Debug"} => dbs[ret.res].clone = 2
    /\ ret.op = "Session" =>
         dbs[ret.res].clone = IF ret.arg.Initialized THEN 0
                              ELSE IF ret.arg.NewDB THEN 1 ELSE 2
    /\ ret.op \in {"Set", "InstanceSet"} => dbs[ret.res].clone = 0

\* Set on a DB with clone-state >= 1 returned another DB, with clone-state 0
C2_Witness ==
    /\ ret.op = "Set"
    /\ ret.res # ret.recv
    /\ dbs[ret.recv].clone >= 1
    /\ dbs[ret.res].clone = 0

Mutators == {"Set", "InstanceSet", "Clauses"}

\* C3: a chain started from a DB that Open or Session returned (clone-state
\* >= 1) gets a statement of its own: its first call leaves every statement
\* that exists as it is, so Get on every DB that exists answers as before;
\* a later call of the chain (clone-state 0) edits that statement alone; and
\* no two chains work on one statement
C3_ChainsIsolated ==
    [][ret'.op \in Mutators =>
          LET d == ret'.recv
              tx == ret'.res
          IN  /\ dbs[d].clone >= 1 =>
                   /\ dbs'[tx].Statement \notin DOMAIN stmts
                   /\ \A s \in DOMAIN stmts : stmts'[s] = stmts[s]
                   /\ \A x \in DOMAIN dbs, k \in Keys :
                         Get(Heap', x, k) = Get(Heap, x, k)
              /\ dbs[d].clone = 0 =>
                   \A s \in DOMAIN stmts :
                       s # dbs[d].Statement => stmts'[s] = stmts[s]
              /\ ret'.op = "Set" => Get(Heap', tx, ret'.arg[1]) = ret'.arg[2]
              /\ \A a, b \in DOMAIN dbs' :
                     a # b /\ dbs'[a].clone = 0 /\ dbs'[b].clone = 0
                        => dbs'[a].Statement # dbs'[b].Statement
    ]_vars

\* two chains Set k1 and k2 from one DB: each sees its own key only, the
\* DB they started from sees neither
C3_Witness ==
    /\ ret.op = "Set"
    /\ ret.arg[1] = "k2"
    /\ dbs[ret.recv].clone >= 1
    /\ Get(Heap, ret.res, "k2") = 1
    /\ Get(Heap, ret.res, "k1") = 0
    /\ Get(Heap, ret.recv, "k1") = 0
    /\ Get(Heap, ret.recv, "k2") = 0
    /\ \E a \in DOMAIN dbs :
           /\ a # ret.res
           /\ dbs[a].clone = 0
           /\ Get(Heap, a, "k1") = 1
           /\ Get(Heap, a, "k2") = 0

\* C4: Session(cfg) returns a DB whose Config has cfg's value for every
\* option cfg sets (a CreateBatchSize counts as set when positive) and the
\* parent's value for every other one, and whose statement has cfg's
\* context when given and the parent's otherwise; no DB, Config or
\* statement that existed changes
C4_SessionConfig ==
    [][ret'.op = "Session" =>
          LET d == ret'.recv
              config == ret'.arg
              old == cfgs[dbs[d].Config]
              new == cfgs'[dbs'[ret'.res].Config]
              Bool(set, was) == IF set THEN TRUE ELSE was
          IN  /\ new.DryRun = Bool(config.DryRun, old.DryRun)
              /\ new.PrepareStmt = Bool(config.PrepareStmt, old.PrepareStmt)
              /\ new.SkipDefaultTransaction =
                    Bool(config.SkipDefaultTransaction, old.SkipDefaultTransaction)
              /\ new.DisableNestedTransaction =
                    Bool(config.DisableNestedTransaction, old.DisableNestedTransaction)
              /\ new.AllowGlobalUpdate =
                    Bool(config.AllowGlobalUpdate, old.AllowGlobalUpdate)
              /\ new.FullSaveAssociations =
                    Bool(config.FullSaveAssociations, old.FullSaveAssociations)
              /\ new.QueryFields = Bool(config.QueryFields, old.QueryFields)
              /\ new.Logger = IF config.Logger # 0 THEN config.Logger ELSE old.Logger
              /\ new.NowFunc = IF config.NowFunc # 0 THEN config.NowFunc ELSE old.NowFunc
              /\ new.CreateBatchSize = IF config.CreateBatchSize > 0
                                       THEN config.CreateBatchSize
                                       ELSE old.CreateBatchSize
              /\ new.TranslateError = old.TranslateError
              /\ new.Dialector = old.Dialector
              /\ ~config.PrepareStmt => new.ConnPool = old.ConnPool
              /\ stmts'[dbs'[ret'.res].Statement].Context =
                    IF config.Context # 0 THEN config.Context
                    ELSE stmts[dbs[d].Statement].Context
              /\ dbs'[ret'.res].Error = dbs[d].Error
              /\ ret'.res \notin DOMAIN dbs
              /\ dbs'[ret'.res].Config \notin DOMAIN cfgs
              /\ \A x \in DOMAIN dbs : dbs'[x] = dbs[x]
              /\ \A x \in DOMAIN cfgs : cfgs'[x] = cfgs[x]
              /\ \A x \in DOMAIN stmts : stmts'[x] = stmts[x]
    ]_vars

\* a session that sets one option on a parent that has another option set:
\* the session has both
C4_Witness ==
    /\ ret.op = "Session"
    /\ ret.arg.QueryFields
    /\ ~ret.arg.DryRun
    /\ cfgs[dbs[ret.recv].Config].DryRun
    /\ ~cfgs[dbs[ret.recv].Config].QueryFields
    /\ cfgs[dbs[ret.res].Config].DryRun
    /\ cfgs[dbs[ret.res].Config].QueryFields

\* C5 as stated: a later error is chained with the most recent error first
C5_Original ==
    [][ret'.op = "AddError" =>
          LET d == ret'.recv
              err == Translate(cfgs[dbs[d].Config], ret'.arg)
          IN  /\ ret'.arg = Nil => dbs' = dbs
              /\ ret'.arg # Nil /\ dbs[d].Error = Nil => dbs'[d].Error = err
              /\ ret'.arg # Nil /\ dbs[d].Error # Nil =>
                    dbs'[d].Error.msg = err.msg \o dbs[d].Error.msg
              /\ \A x \in DOMAIN dbs : dbs[x].Error # Nil => dbs'[x].Error # Nil
    ]_vars

\* C5, amended: AddError(nil) changes nothing; the first non-nil error (as
\* the dialector translates it) becomes the DB's error; a later one is
\* appended to the text of the existing error, which stays whole and comes
\* first, and is the one error the chain unwraps to; an error never
\* becomes nil again
C5_AddErrorChains ==
    [][ /\ ret'.op = "AddError" =>
            LET d == ret'.recv
                err == Translate(cfgs[dbs[d].Config], ret'.arg)
            IN  /\ ret'.arg = Nil => dbs' = dbs
                /\ ret'.arg # Nil /\ dbs[d].Error = Nil => dbs'[d].Error = err
                /\ ret'.arg # Nil /\ dbs[d].Error # Nil =>
                      /\ dbs'[d].Error.msg = dbs[d].Error.msg \o err.msg
                      /\ dbs'[d].Error.is = err.is
                /\ \A x \in DOMAIN dbs : x # d => dbs'[x] = dbs[x]
        /\ \A x \in DOMAIN dbs : dbs[x].Error # Nil => dbs'[x].Error # Nil
      ]_vars

\* a second, different error was added to a DB
C5_Witness ==
    /\ ret.op = "AddError"
    /\ ret.arg # Nil
    /\ Len(dbs[ret.recv].Error.msg) = 2
    /\ dbs[ret.recv].Error.msg[1] # dbs[ret.recv].Error.msg[2]
    /\ dbs[ret.recv].Error.msg[2] = ret.arg.msg[1]

\* C6: Use of a name that is registered returns ErrRegistered, calls no
\* Initialize and leaves the registry; Use whose Initialize fails returns
\* that error and registers nothing; otherwise the plugin is registered;
\* a registered name keeps its plugin
C6_PluginRegistry ==
    [][ret'.op = "Use" =>
          LET p == ret'.arg
          IN  /\ Plugins[p.name] # 0 =>
                   /\ ret'.res = Err("ErrRegistered")
                   /\ initCalls' = initCalls
                   /\ Plugins' = Plugins
              /\ Plugins[p.name] = 0 =>
                   /\ initCalls' = [initCalls EXCEPT ![p] = @ + 1]
                   /\ ret'.res \in {Nil, Err("init failed")}
                   /\ ret'.res = Nil =>
                         Plugins' = [Plugins EXCEPT ![p.name] = p.id]
                   /\ ret'.res # Nil => Plugins' = Plugins
              /\ \A n \in PluginNames :
                     Plugins[n] # 0 => Plugins'[n] = Plugins[n]
    ]_vars

\* a second plugin of a registered name was refused
C6_Witness ==
    /\ ret.op = "Use"
    /\ ret.res = Err("ErrRegistered")
    /\ Plugins[ret.arg.name] # 0
    /\ Plugins[ret.arg.name] # ret.arg.id
    /\ initCalls[ret.arg] = 0

----------------------------------------------------------------------------
\* Transactions on the pools.

\* a pool that is neither a TxBeginner nor a ConnPoolBeginner: it has the
\* four methods of ConnPool only
PlainPool == [kind |-> "plain", inner |-> 0, cache |-> 0, txn |-> 0]

\* the pool offers BeginTx: *sql.DB and *sql.Conn (TxBeginner), and the
\* prepared-statement wrapper of such a pool (ConnPoolBeginner)
RECURSIVE CanBegin(_, _)
CanBegin(ps, p) ==
    \/ ps[p].kind \in {"db", "conn"}
    \/ ps[p].kind = "prep" /\ CanBegin(ps, ps[p].inner)

\* the value BeginTx returns on pool p: a *sql.Tx, or a PreparedStmtTX from
\* the wrapper; t is the driver transaction, 0 when BeginTx failed (nil)
TxPool(ps, p, t) ==
    IF ps[p].kind = "prep"
    THEN [kind |-> "preptx", inner |-> p, cache |-> ps[p].cache, txn |-> t]
    ELSE [kind |-> "tx", inner |-> p, cache |-> 0, txn |-> t]

\* a driver transaction just begun; by is the DB whose begin_transaction
\* handler began it, 0 for a transaction the caller began
NewTxn == [state |-> "open", commits |-> 0, rollbacks |-> 0, by |-> 0]

\* db.Begin(): a session of the instance with the statement's context; its
\* statement gets what BeginTx returns.  ok: the driver begins the
\* transaction
Begin(H, d, ok) ==
    Let(getInstance(H, d), LAMBDA G :
    Let(Session(G.H, G.res,
                [ZeroSession EXCEPT
                   !.Context = H.stmts[H.dbs[d].Statement].Context,
                   !.NewDB = (H.dbs[d].clone = 1)]), LAMBDA S :
    LET tx == S.res
        sid == S.H.dbs[tx].Statement
        p == S.H.stmts[sid].ConnPool
        np == Len(S.H.pools) + 1
        t == Len(S.H.txns) + 1
    IN  IF ~CanBegin(S.H.pools, p)
        THEN [H |-> AddError(S.H, tx, Err("ErrInvalidTransaction")), res |-> tx]
        ELSE IF ok
        THEN [H |-> [S.H EXCEPT !.pools = Append(@, TxPool(S.H.pools, p, t)),
                                !.txns = Append(@, NewTxn),
                                !.stmts[sid].ConnPool = np],
              res |-> tx]
        ELSE [H |-> AddError([S.H EXCEPT !.pools = Append(@, TxPool(S.H.pools, p, 0)),
                                         !.stmts[sid].ConnPool = np],
                             tx, Err("begin failed")),
              res |-> tx]))

\* db.Commit(); ok: the driver commits
Commit(H, d, ok) ==
    LET pl == H.pools[H.stmts[H.dbs[d].Statement].ConnPool]
        t == pl.txn
    IN  IF IsTx(pl) /\ t # 0
        THEN IF H.txns[t].state # "open"
             THEN AddError([H EXCEPT !.txns[t].commits = @ + 1], d, Err("ErrTxDone"))
             ELSE IF ok
             THEN [H EXCEPT !.txns[t].commits = @ + 1,
                            !.txns[t].state = "committed"]
             ELSE AddError([H EXCEPT !.txns[t].commits = @ + 1,
                                     !.txns[t].state = "failed"],
                           d, Err("commit failed"))
        ELSE AddError(H, d, Err("ErrInvalidTransaction"))

\* db.Rollback(); ok: the driver reports no error
Rollback(H, d, ok) ==
    LET pl == H.pools[H.stmts[H.dbs[d].Statement].ConnPool]
        t == pl.txn
    IN  IF IsTx(pl)
        THEN IF t = 0 THEN H
             ELSE IF H.txns[t].state # "open"
             THEN AddError([H EXCEPT !.txns[t].rollbacks = @ + 1], d, Err("ErrTxDone"))
             ELSE AddError([H EXCEPT !.txns[t].rollbacks = @ + 1,
                                     !.txns[t].state = "rolledback"],
                           d, IF ok THEN Nil ELSE Err("rollback failed"))
        ELSE AddError(H, d, Err("ErrInvalidTransaction"))

StartedTransaction == "gorm:started_transaction"

\* BeginTransaction(db); ok: the driver begins the transaction
\* BeginTransaction that leaves the statement on its pool
BeginTransaction_noInstall(H, d, ok) ==
    IF ~H.cfgs[H.dbs[d].Config].SkipDefaultTransaction /\ H.dbs[d].Error = Nil
    THEN Let(Begin(H, d, ok), LAMBDA B :
         IF B.H.dbs[B.res].Error = Nil
         THEN InstanceSet([B.H EXCEPT
                             !.txns[B.H.pools[B.H.stmts[B.H.dbs[B.res].Statement]
                                                 .ConnPool].txn].by = d],
                          d, StartedTransaction, 1).H
         ELSE IF B.H.dbs[B.res].Error = Err("ErrInvalidTransaction")
         THEN [B.H EXCEPT !.dbs[B.res].Error = Nil]
         ELSE [B.H EXCEPT !.dbs[d].Error = B.H.dbs[B.res].Error])
    ELSE H

\* BeginTransaction that takes ErrInvalidTransaction like any other error
BeginTransaction_invalidFails(H, d, ok) ==
    IF ~H.cfgs[H.dbs[d].Config].SkipDefaultTransaction /\ H.dbs[d].Error = Nil
    THEN Let(Begin(H, d, ok), LAMBDA B :
         LET tx == B.res
             txPool == B.H.stmts[B.H.dbs[tx].Statement].ConnPool
         IN  IF B.H.dbs[tx].Error = Nil
             THEN InstanceSet([B.H EXCEPT
                                 !.stmts[B.H.dbs[d].Statement].ConnPool = txPool,
                                 !.txns[B.H.pools[txPool].txn].by = d],
                              d, StartedTransaction, 1).H
             ELSE [B.H EXCEPT !.dbs[d].Error = B.H.dbs[tx].Error])
    ELSE H

BeginTransaction(H, d, ok) ==
    IF ~H.cfgs[H.dbs[d].Config].SkipDefaultTransaction /\ H.dbs[d].Error = Nil
    THEN Let(Begin(H, d, ok), LAMBDA B :
         LET tx == B.res
             txPool == B.H.stmts[B.H.dbs[tx].Statement].ConnPool
         IN  IF B.H.dbs[tx].Error = Nil
             THEN InstanceSet([B.H EXCEPT
                                 !.stmts[B.H.dbs[d].Statement].ConnPool = txPool,
                                 !.txns[B.H.pools[txPool].txn].by = d],
                              d, StartedTransaction, 1).H
             ELSE IF B.H.dbs[tx].Error = Err("ErrInvalidTransaction")
             THEN [B.H EXCEPT !.dbs[tx].Error = Nil]
             ELSE [B.H EXCEPT !.dbs[d].Error = B.H.dbs[tx].Error])
    ELSE H

\* CommitOrRollbackTransaction(db); ok: the driver's Commit or Rollback
\* reports no error
\* CommitOrRollbackTransaction that commits whatever the error is
CommitOrRollbackTransaction_alwaysCommit(H, d, ok) ==
    IF ~H.cfgs[H.dbs[d].Config].SkipDefaultTransaction
       /\ InstanceGet(H, d, StartedTransaction) # 0
    THEN Let(Commit(H, d, ok), LAMBDA H1 :
             [H1 EXCEPT !.stmts[H1.dbs[d].Statement].ConnPool =
                            H1.cfgs[H1.dbs[d].Config].ConnPool])
    ELSE H

CommitOrRollbackTransaction(H, d, ok) ==
    IF ~H.cfgs[H.dbs[d].Config].SkipDefaultTransaction
       /\ InstanceGet(H, d, StartedTransaction) # 0
    THEN Let(IF H.dbs[d].Error # Nil
             THEN Rollback(H, d, ok)
             ELSE Commit(H, d, ok), LAMBDA H1 :
             [H1 EXCEPT !.stmts[H1.dbs[d].Statement].ConnPool =
                            H1.cfgs[H1.dbs[d].Config].ConnPool])
    ELSE H

----------------------------------------------------------------------------
\* The callback pipelines.

\* the values handed to the finishers:
\*   plain   a record with a primary key value
\*   hooked  a record whose type has the Before/After hooks
\*   parent  a record with a selected has-many relation
\*   nokey   a record without primary key value
\*   table   a map, with the table named by the chain: no schema
\*   bad     a value Parse gives an error for
\*   family  a record with a selected has-one, has-many and many-to-many
\*           relation
\*   orphan  a record without primary key value, with a selected has-many
\*           and many-to-many relation
\*   value   a record with hooks on the value receiver
\*   unaddr  a record with hooks, passed by value: it cannot be addressed
\*   slice   a slice of records with hooks
Dests == {"plain", "hooked", "parent", "nokey", "table", "bad"}

\* Statement.Parse(dest) fails
ParseFails(dest) == dest = "bad"

\* the schema Parse gives the statement ("": nil)
SchemaOf(dest) == IF dest \in {"table", "bad"} THEN "" ELSE dest

\* Schema.BeforeDelete, Schema.AfterDelete, Schema.AfterFind, ...
HasHooks(schema) == schema \in {"hooked", "value", "unaddr", "slice"}

\* the value as a whole implements the hook interfaces: its type has them
\* on the value receiver
Accepts(dest) == dest = "value"

\* Statement.ReflectValue.Kind()
Kind(dest) == IF dest = "slice" THEN "slice" ELSE "struct"

\* the slices of up to n elements: TRUE is an element that can be addressed,
\* FALSE one that cannot (a nil pointer)
RECURSIVE Slices(_)
Slices(n) ==
    IF n = 0 THEN {<<>>}
    ELSE Slices(n - 1) \cup
         {Append(r, a) : r \in {x \in Slices(n - 1) : Len(x) = n - 1},
                         a \in BOOLEAN}

\* Statement.ReflectValue of a value, by what CanAddr gives: of a slice
\* for each element, of a struct for the struct
ReflectValues(dest) ==
    CASE dest = "slice" -> Slices(MaxElems)
      [] dest \in {"unaddr", "value"} -> {<<FALSE>>}
      [] OTHER -> {<<TRUE>>}

\* the relations of Schema.Relationships.Relations that the statement
\* selects, by their type
SelectedRelations(schema) ==
    CASE schema = "parent" -> {"has_many"}
      [] schema = "family" -> {"has_one", "has_many", "many_to_many"}
      [] schema = "orphan" -> {"has_many", "many_to_many"}
      [] OTHER -> {}

\* Schema.Relationships.Relations holds a selected relation
HasRelation(schema) == SelectedRelations(schema) # {}

\* the primary fields of the value are not zero
HasPrimaryValue(dest) ==
    dest \in {"plain", "hooked", "parent", "family", "value", "unaddr", "slice"}

\* the values of the key fields that the records of the value yield
KeyValues(dest) == IF HasPrimaryValue(dest) THEN <<1>> ELSE <<>>

\* the conditions of the delete of a relation: an IN of the key column over
\* the key values of the parent records
QueryConditions(relation, dest) ==
    [relation |-> relation, values |-> KeyValues(dest)]

\* the conditions of a run that is not the delete of a relation
NoConditions == [relation |-> "", values |-> <<>>]

\* DeleteBeforeAssociations skips the delete of a has-one or has-many
\* relation whose conditions hold an IN without values
withoutConditions(relation, conds) ==
    relation \in {"has_one", "has_many"} /\ Len(conds.values) = 0

\* the relations that the loop of DeleteBeforeAssociations still has to
\* delete: those selected, not yet visited and not skipped
AssociationsTodo(H, frame) ==
    { r \in SelectedRelations(H.stmts[H.dbs[frame.db].Statement].Schema)
             \ frame.rel :
        ~withoutConditions(r,
             QueryConditions(r, H.stmts[H.dbs[frame.db].Statement].Dest)) }

\* a variant in which the loop goes on after a delete that failed
AssociationsGoOn_afterError(H, frame) == AssociationsTodo(H, frame) # {}

\* after the delete of a relation the loop of DeleteBeforeAssociations goes
\* on if the DB has no error and a relation is left
AssociationsGoOn(H, frame) ==
    /\ H.dbs[frame.db].Error = Nil
    /\ AssociationsTodo(H, frame) # {}

createClauses == <<"INSERT", "VALUES", "ON CONFLICT">>
queryClauses == <<"SELECT", "FROM", "WHERE", "GROUP BY", "ORDER BY", "LIMIT", "FOR">>
updateClauses == <<"UPDATE", "SET", "WHERE">>
deleteClauses == <<"DELETE", "FROM", "WHERE">>

\* config.DeleteClauses of the dialector
DeleteClauses(dialector) ==
    IF dialector = "returning" THEN deleteClauses \o <<"RETURNING">>
    ELSE deleteClauses

\* the Clauses of the processor of an operation
ProcessorClauses(op, dialector) ==
    CASE op = "Create" -> createClauses
      [] op = "Query" -> queryClauses
      [] op = "Update" -> updateClauses
      [] op = "Delete" -> DeleteClauses(dialector)

\* the handlers with the transaction handlers the other way round
Handlers_commitFirst(op) ==
    CASE op = "Create" ->
           <<"gorm:commit_or_rollback_transaction", "gorm:before_create",
             "gorm:save_before_associations", "gorm:create",
             "gorm:save_after_associations", "gorm:after_create",
             "gorm:begin_transaction">>
      [] op = "Query" ->
           <<"gorm:query", "gorm:preload", "gorm:after_query">>
      [] op = "Delete" ->
           <<"gorm:commit_or_rollback_transaction", "gorm:before_delete",
             "gorm:delete_before_associations", "gorm:delete",
             "gorm:after_delete", "gorm:begin_transaction">>
      [] op = "Update" ->
           <<"gorm:commit_or_rollback_transaction", "gorm:setup_reflect_value",
             "gorm:before_update", "gorm:save_before_associations",
             "gorm:update", "gorm:save_after_associations",
             "gorm:after_update", "gorm:begin_transaction">>

\* the handlers registered for an operation, in order
Handlers(op) ==
    CASE op = "Create" ->
           <<"gorm:begin_transaction", "gorm:before_create",
             "gorm:save_before_associations", "gorm:create",
             "gorm:save_after_associations", "gorm:after_create",
             "gorm:commit_or_rollback_transaction">>
      [] op = "Query" ->
           <<"gorm:query", "gorm:preload", "gorm:after_query">>
      [] op = "Delete" ->
           <<"gorm:begin_transaction", "gorm:before_delete",
             "gorm:delete_before_associations", "gorm:delete",
             "gorm:after_delete", "gorm:commit_or_rollback_transaction">>
      [] op = "Update" ->
           <<"gorm:begin_transaction", "gorm:setup_reflect_value",
             "gorm:before_update", "gorm:save_before_associations",
             "gorm:update", "gorm:save_after_associations",
             "gorm:after_update", "gorm:commit_or_rollback_transaction">>

\* enableTransaction, the predicate of Match on the two transaction handlers
enableTransaction(H, d) == ~H.cfgs[H.dbs[d].Config].SkipDefaultTransaction

\* Statement.Build(BuildClauses...): the clauses of the statement in the
\* order of the processor's clause names, one var for the WHERE condition
Build(st, names) ==
    [st EXCEPT !.SQL = SelectSeq(names, LAMBDA n : n \in st.Clauses),
               !.Vars = IF "WHERE" \in st.Clauses THEN <<1>> ELSE <<>>]

\* the finisher methods (Create, Find, Updates, Delete): the instance gets
\* the value as its Dest and is handed to the processor
Finisher(H, d, dest) ==
    Let(getInstance(H, d), LAMBDA G :
        [H |-> [G.H EXCEPT !.stmts[G.H.dbs[G.res].Statement].Dest = dest],
         res |-> G.res])

\* processor.Execute, up to the loop over the handlers: Parse
ExecuteParse(H, d) ==
    LET sid == H.dbs[d].Statement
    IN  IF ParseFails(H.stmts[sid].Dest)
        THEN AddError(H, d, Err("parse failed"))
        ELSE [H EXCEPT !.stmts[sid].Schema = SchemaOf(H.stmts[sid].Dest)]

\* Execute that resets the statement in dry-run mode too
ExecuteReset_always(H, d) ==
    LET sid == H.dbs[d].Statement
    IN  [H EXCEPT !.stmts[sid].SQL = <<>>, !.stmts[sid].Vars = <<>>]

\* processor.Execute, after the loop over the handlers
ExecuteReset(H, d) ==
    LET sid == H.dbs[d].Statement
    IN  IF ~H.cfgs[H.dbs[H.stmts[sid].DB].Config].DryRun
        THEN [H EXCEPT !.stmts[sid].SQL = <<>>, !.stmts[sid].Vars = <<>>]
        ELSE H

\* what the driver answers to ExecContext and QueryContext, and to
\* rows.Close
DriverResults ==
    { [err |-> Nil, rows |-> 0], [err |-> Nil, rows |-> 1],
      [err |-> Err("driver failed"), rows |-> 0] }
CloseResults == {Nil, Err("close failed")}

\* db.Statement.ConnPool.ExecContext / QueryContext: the statement goes to
\* the pool of the DB's statement, and the driver gives its answer res
Send(H, d, call, res) ==
    LET st == H.stmts[H.dbs[d].Statement]
    IN  [H EXCEPT !.log = Append(@, [db |-> d, pool |-> st.ConnPool,
                                     call |-> call, sql |-> st.SQL,
                                     vars |-> st.Vars,
                                     err |-> res.err, rows |-> res.rows])]

\* gorm.Scan(rows, db, mode): rows-affected is the number of rows scanned
Scan(H, d, rows) == [H EXCEPT !.dbs[d].RowsAffected = rows]

\* checkMissingWhereConditions(db)
checkMissingWhereConditions(H, d) ==
    IF /\ ~H.cfgs[H.dbs[d].Config].AllowGlobalUpdate
       /\ H.dbs[d].Error = Nil
       /\ "WHERE" \notin H.stmts[H.dbs[d].Statement].Clauses
    THEN AddError(H, d, Err("ErrMissingWhereClause"))
    ELSE H

\* hasReturning(db, supportReturning)
hasReturning(H, d) ==
    LET names == DeleteClauses(H.cfgs[H.dbs[d].Config].Dialector)
    IN  /\ \E i \in DOMAIN names : names[i] = "RETURNING"
        /\ "RETURNING" \in H.stmts[H.dbs[d].Statement].Clauses

\* the clause of the primary key values, when the value has them
PrimaryWhere(st) ==
    IF st.Schema # "" /\ HasPrimaryValue(st.Dest) THEN {"WHERE"} ELSE {}

\* Delete that does not check for a missing condition
Delete_noCheck(H, d, res, close) ==
    IF H.dbs[d].Error # Nil
    THEN H
    ELSE LET sid == H.dbs[d].Statement
             st == H.stmts[sid]
             cfg == H.cfgs[H.dbs[d].Config]
             built == IF st.SQL = <<>>
                      THEN Build([st EXCEPT !.Clauses = @ \cup {"DELETE", "FROM"}
                                                       \cup PrimaryWhere(st)],
                                 DeleteClauses(cfg.Dialector))
                      ELSE st
         IN  Let([H EXCEPT !.stmts[sid] = built], LAMBDA H1 :
             IF ~cfg.DryRun /\ H1.dbs[d].Error = Nil
             THEN IF ~hasReturning(H1, d)
                  THEN Let(AddError(Send(H1, d, "ExecContext", res), d, res.err),
                           LAMBDA H2 :
                           IF H2.dbs[d].Error = Nil
                           THEN [H2 EXCEPT !.dbs[d].RowsAffected = res.rows]
                           ELSE H2)
                  ELSE Let(AddError(Send(H1, d, "QueryContext", res), d, res.err),
                           LAMBDA H2 :
                           IF H2.dbs[d].Error = Nil
                           THEN AddError(Scan(H2, d, res.rows), d, close)
                           ELSE H2)
             ELSE H1)

\* Delete that does not take the count of the result
Delete_noCount(H, d, res, close) ==
    IF H.dbs[d].Error # Nil
    THEN H
    ELSE LET sid == H.dbs[d].Statement
             st == H.stmts[sid]
             cfg == H.cfgs[H.dbs[d].Config]
             built == IF st.SQL = <<>>
                      THEN Build([st EXCEPT !.Clauses = @ \cup {"DELETE", "FROM"}
                                                       \cup PrimaryWhere(st)],
                                 DeleteClauses(cfg.Dialector))
                      ELSE st
         IN  Let(checkMissingWhereConditions([H EXCEPT !.stmts[sid] = built], d),
                 LAMBDA H1 :
             IF ~cfg.DryRun /\ H1.dbs[d].Error = Nil
             THEN IF ~hasReturning(H1, d)
                  THEN AddError(Send(H1, d, "ExecContext", res), d, res.err)
                  ELSE Let(AddError(Send(H1, d, "QueryContext", res), d, res.err),
                           LAMBDA H2 :
                           IF H2.dbs[d].Error = Nil
                           THEN AddError(Scan(H2, d, res.rows), d, close)
                           ELSE H2)
             ELSE H1)

\* the handler gorm:delete; res, close: the driver's answers
Delete(H, d, res, close) ==
    IF H.dbs[d].Error # Nil
    THEN H
    ELSE LET sid == H.dbs[d].Statement
             st == H.stmts[sid]
             cfg == H.cfgs[H.dbs[d].Config]
             built == IF st.SQL = <<>>
                      THEN Build([st EXCEPT !.Clauses = @ \cup {"DELETE", "FROM"}
                                                       \cup PrimaryWhere(st)],
                                 DeleteClauses(cfg.Dialector))
                      ELSE st
         IN  Let(checkMissingWhereConditions([H EXCEPT !.stmts[sid] = built], d),
                 LAMBDA H1 :
             IF ~cfg.DryRun /\ H1.dbs[d].Error = Nil
             THEN IF ~hasReturning(H1, d)
                  THEN Let(AddError(Send(H1, d, "ExecContext", res), d, res.err),
                           LAMBDA H2 :
                           IF H2.dbs[d].Error = Nil
                           THEN [H2 EXCEPT !.dbs[d].RowsAffected = res.rows]
                           ELSE H2)
                  ELSE Let(AddError(Send(H1, d, "QueryContext", res), d, res.err),
                           LAMBDA H2 :
                           IF H2.dbs[d].Error = Nil
                           THEN AddError(Scan(H2, d, res.rows), d, close)
                           ELSE H2)
             ELSE H1)

\* BuildQuerySQL(db)
BuildQuerySQL(H, d) ==
    LET sid == H.dbs[d].Statement
        st == H.stmts[sid]
    IN  IF st.SQL = <<>>
        THEN [H EXCEPT !.stmts[sid] =
                  Build([st EXCEPT !.Clauses = @ \cup {"SELECT", "FROM"}
                                                \cup PrimaryWhere(st)],
                        queryClauses)]
        ELSE H

\* Query that sends the statement in dry-run mode too
Query_sendsDryRun(H, d, res, close) ==
    IF H.dbs[d].Error = Nil
    THEN Let(BuildQuerySQL(H, d), LAMBDA H1 :
             IF H1.dbs[d].Error = Nil
             THEN Let(Send(H1, d, "QueryContext", res), LAMBDA H2 :
                      IF res.err # Nil
                      THEN AddError(H2, d, res.err)
                      ELSE AddError(Scan(H2, d, res.rows), d, close))
             ELSE H1)
    ELSE H

\* the handler gorm:query; res, close: the driver's answers
Query(H, d, res, close) ==
    IF H.dbs[d].Error = Nil
    THEN Let(BuildQuerySQL(H, d), LAMBDA H1 :
             IF ~H1.cfgs[H1.dbs[d].Config].DryRun /\ H1.dbs[d].Error = Nil
             THEN Let(Send(H1, d, "QueryContext", res), LAMBDA H2 :
                      IF res.err # Nil
                      THEN AddError(H2, d, res.err)
                      ELSE AddError(Scan(H2, d, res.rows), d, close))
             ELSE H1)
    ELSE H

\* callMethod(db, fc): the session the hook is called with
callMethod(H, d) == Session(H, d, [ZeroSession EXCEPT !.NewDB = TRUE])

\* what a hook returns when it runs no statement
HookResults == {Nil, Err("hook failed")}

\* the condition without the look at the error
DeleteHooks_ignoresError(H, d) ==
    LET st == H.stmts[H.dbs[d].Statement]
    IN  /\ st.Schema # ""
        /\ ~st.SkipHooks
        /\ HasHooks(st.Schema)

\* the condition of BeforeDelete and AfterDelete
DeleteHooks(H, d) ==
    LET st == H.stmts[H.dbs[d].Statement]
    IN  /\ H.dbs[d].Error = Nil
        /\ st.Schema # ""
        /\ ~st.SkipHooks
        /\ HasHooks(st.Schema)

\* the condition of AfterQuery
AfterFindHook(H, d) ==
    LET st == H.stmts[H.dbs[d].Statement]
    IN  /\ H.dbs[d].Error = Nil
        /\ st.Schema # ""
        /\ ~st.SkipHooks
        /\ HasHooks(st.Schema)
        /\ H.dbs[d].RowsAffected > 0

\* the handlers of Create and Update: gorm:create and gorm:update build
\* the statement and send it with ExecContext; res: the driver's answer
Write(H, d, op, res) ==
    IF H.dbs[d].Error # Nil
    THEN H
    ELSE LET sid == H.dbs[d].Statement
             st == H.stmts[sid]
             cfg == H.cfgs[H.dbs[d].Config]
             own == IF op = "Create" THEN {"INSERT", "VALUES"}
                    ELSE {"UPDATE", "SET"} \cup PrimaryWhere(st)
             built == IF st.SQL = <<>>
                      THEN Build([st EXCEPT !.Clauses = @ \cup own],
                                 ProcessorClauses(op, cfg.Dialector))
                      ELSE st
             H0 == [H EXCEPT !.stmts[sid] = built]
         IN  Let(IF op = "Update" THEN checkMissingWhereConditions(H0, d) ELSE H0,
                 LAMBDA H1 :
             IF ~cfg.DryRun /\ H1.dbs[d].Error = Nil
             THEN Let(AddError(Send(H1, d, "ExecContext", res), d, res.err),
                      LAMBDA H2 :
                      IF H2.dbs[d].Error = Nil
                      THEN [H2 EXCEPT !.dbs[d].RowsAffected = res.rows]
                      ELSE H2)
             ELSE H1)

\* db.Preload(query): a chain method
Preload(H, d) ==
    Let(getInstance(H, d), LAMBDA G :
        [H |-> [G.H EXCEPT !.stmts[G.H.dbs[G.res].Statement].Preloads = TRUE],
         res |-> G.res])

\* db.Connection(fc): fc gets the instance, its statement bound to a
\* connection of its own taken from the pool
Connection(H, d) ==
    Let(getInstance(H, d), LAMBDA G :
    LET conn == [kind |-> "conn", inner |-> G.H.cfgs[G.H.dbs[G.res].Config].ConnPool,
                 cache |-> 0, txn |-> 0]
    IN  [H |-> [G.H EXCEPT !.pools = Append(@, conn),
                           !.stmts[G.H.dbs[G.res].Statement].ConnPool =
                               Len(G.H.pools) + 1],
         res |-> G.res])

----------------------------------------------------------------------------
\* The pipeline machine: runs of the processors, one handler per step.

\* the run in progress
Top == stack[Len(stack)]

\* the run in progress is at handler h
At(h) ==
    /\ stack # <<>>
    /\ Top.pc <= Len(Handlers(Top.op))
    /\ Handlers(Top.op)[Top.pc] = h

\* the handler returns: the loop of Execute goes to the next one
Advance(H) ==
    /\ Install(H)
    /\ stack' = [stack EXCEPT ![Len(stack)].pc = @ + 1]
    /\ UNCHANGED <<Plugins, initCalls, calls, ret>>

\* a finisher is called on recv: the run of its processor begins.  Kept
\* with the run: the transaction its begin_transaction began, and the
\* statement's pool, the rows-affected and the length of the log when it began
\* Of a run of Delete, rel holds the relations its cascade has visited; of
\* the delete of a relation, conds holds its conditions.  ReflectValue is
\* the statement's ReflectValue; hook is the session of the callMethod in
\* progress (0: none) and fc the calls of the hook that the run has made,
\* each with the current-destination index it was made at
EnterOn(below, H, recv, op, dest, conds) ==
    \E F \in {Finisher(H, recv, dest)} :
    \E H1 \in {ExecuteParse(F.H, F.res)} :
    \E rv \in ReflectValues(dest) :
        /\ Install(H1)
        /\ stack' = Append(below,
                           [op |-> op, recv |-> recv, db |-> F.res, pc |-> 1,
                            started |-> 0,
                            pool0 |-> H1.stmts[H1.dbs[F.res].Statement].ConnPool,
                            rows0 |-> H1.dbs[F.res].RowsAffected,
                            log0 |-> Len(H1.log),
                            rel |-> {}, conds |-> conds,
                            ReflectValue |-> rv, hook |-> 0, fc |-> <<>>])

Enter(H, recv, op, dest) == EnterOn(stack, H, recv, op, dest, NoConditions)

\* the run of the delete of relation r, begun by DeleteBeforeAssociations
EnterAssociation(H, recv, dest, r, conds) ==
    /\ EnterOn([stack EXCEPT ![Len(stack)].rel = @ \cup {r}],
               H, recv, "Delete", dest, conds)
    /\ UNCHANGED <<Plugins, initCalls, calls, ret>>

\* a run begun by a handler of the run in progress
EnterNested(H, recv, op, dest) ==
    /\ Enter(H, recv, op, dest)
    /\ UNCHANGED <<Plugins, initCalls, calls, ret>>

\* the values of the runs begun by handlers: the records of a relation and
\* of a hook's own statement have no hooks and no relations of their own
NestedDests == {"plain"}

\* a variant in which the loop over a slice ends at the first element
\* whose hook left an error on the DB
AfterHook_stopsOnError(H, frame) ==
    LET sid == H.dbs[frame.db].Statement
        st == H.stmts[sid]
        done == [frame EXCEPT !.pc = @ + 1, !.hook = 0]
    IN  IF Kind(st.Dest) = "slice" /\ ~Accepts(st.Dest)
        THEN [H |-> [H EXCEPT !.stmts[sid].CurDestIndex = @ + 1],
              frame |-> IF /\ st.CurDestIndex + 1 < Len(frame.ReflectValue)
                           /\ H.dbs[frame.db].Error = Nil
                        THEN frame ELSE done]
        ELSE [H |-> H, frame |-> done]

\* callMethod after fc has returned: in the loop over a slice the
\* current-destination index goes up and the loop goes to the next
\* element; after the last, and for any other value, callMethod returns
AfterHook(H, frame) ==
    LET sid == H.dbs[frame.db].Statement
        st == H.stmts[sid]
        done == [frame EXCEPT !.pc = @ + 1, !.hook = 0]
    IN  IF Kind(st.Dest) = "slice" /\ ~Accepts(st.Dest)
        THEN [H |-> [H EXCEPT !.stmts[sid].CurDestIndex = @ + 1],
              frame |-> IF st.CurDestIndex + 1 < Len(frame.ReflectValue)
                        THEN frame ELSE done]
        ELSE [H |-> H, frame |-> done]

\* the handler of the run in progress returns from callMethod
Leave(H, frame) ==
    /\ Install(H)
    /\ stack' = [stack EXCEPT ![Len(stack)] = [frame EXCEPT !.pc = @ + 1,
                                                           !.hook = 0]]
    /\ UNCHANGED <<Plugins, initCalls, calls, ret>>

\* fc(value, tx) calls the hook with the session of callMethod: the hook
\* returns nil or an error, or runs a Delete on the session and returns its
\* error; the error is added to the DB of the run
CallHook(H, frame) ==
    \E fr \in {[frame EXCEPT !.fc = Append(@,
                    [tx |-> frame.hook,
                     idx |-> H.stmts[H.dbs[frame.db].Statement].CurDestIndex])]} :
        \/ \E e \in HookResults :
           \E A \in {AfterHook(AddError(H, fr.db, e), fr)} :
               /\ Install(A.H)
               /\ stack' = [stack EXCEPT ![Len(stack)] = A.frame]
               /\ UNCHANGED <<Plugins, initCalls, calls, ret>>
        \/ /\ \E dest \in NestedDests :
                 EnterOn([stack EXCEPT ![Len(stack)] = fr],
                         H, fr.hook, "Delete", dest, NoConditions)
           /\ UNCHANGED <<Plugins, initCalls, calls, ret>>

\* the value that callMethod is at, a struct or the element of the slice
\* at the current-destination index: fc is called on its address if it has
\* one; if not, InvalidValue is added and callMethod returns
CallElement(H, frame) ==
    LET st == H.stmts[H.dbs[frame.db].Statement]
        i == IF Kind(st.Dest) = "slice" THEN st.CurDestIndex + 1 ELSE 1
    IN  IF frame.ReflectValue[i]
        THEN CallHook(H, frame)
        ELSE Leave(AddError(H, frame.db, Err("ErrInvalidValue")), frame)

\* callMethod(db, fc), from its begin or, in the loop over a slice, from
\* the next element, up to the next call of the hook.  The session for the
\* hook is made first; a value that accepts the hook as a whole gets it
\* once; for a slice the current-destination index is set to 0 before the
\* loop
InvokeHook(d) ==
    IF Top.hook = 0
    THEN \E C \in {callMethod(Heap, d)} :
         \E fr \in {[Top EXCEPT !.hook = C.res]} :
             LET sid == C.H.dbs[d].Statement
                 dest == C.H.stmts[sid].Dest
             IN  IF Accepts(dest)
                 THEN CallHook(C.H, fr)
                 ELSE IF Kind(dest) = "slice"
                      THEN \E H0 \in {[C.H EXCEPT !.stmts[sid].CurDestIndex = 0]} :
                               IF Len(fr.ReflectValue) = 0
                               THEN Leave(H0, fr)
                               ELSE CallElement(H0, fr)
                      ELSE CallElement(C.H, fr)
    ELSE CallElement(Heap, Top)

\* the handler calls callMethod, or is in its loop
HookRuns(cond) == Top.hook # 0 \/ cond

\* gorm:begin_transaction
BeginTransactionStep ==
    /\ At("gorm:begin_transaction")
    /\ \E ok \in BOOLEAN :
         \E H1 \in {IF enableTransaction(Heap, Top.db)
                    THEN BeginTransaction(Heap, Top.db, ok)
                    ELSE Heap} :
             /\ Install(H1)
             /\ stack' = [stack EXCEPT
                            ![Len(stack)].pc = @ + 1,
                            ![Len(stack)].started =
                                IF Len(H1.txns) > Len(txns) THEN Len(H1.txns) ELSE 0]
             /\ UNCHANGED <<Plugins, initCalls, calls, ret>>

\* gorm:commit_or_rollback_transaction
CommitOrRollbackTransactionStep ==
    /\ At("gorm:commit_or_rollback_transaction")
    /\ \E ok \in BOOLEAN :
         Advance(IF enableTransaction(Heap, Top.db)
                 THEN CommitOrRollbackTransaction(Heap, Top.db, ok)
                 ELSE Heap)

\* gorm:before_delete
BeforeDeleteStep ==
    /\ At("gorm:before_delete")
    /\ IF HookRuns(DeleteHooks(Heap, Top.db))
       THEN InvokeHook(Top.db) ELSE Advance(Heap)

\* gorm:delete_before_associations: the loop over the selected relations,
\* which a Go map hands out in any order, up to the delete of the next one
\* that is not skipped. The records of the relation are deleted on a session
\* of the DB, by the conditions of the relation; the handler returns when no
\* relation is left
DeleteBeforeAssociationsStep ==
    /\ At("gorm:delete_before_associations")
    /\ LET d == Top.db
           st == stmts[dbs[d].Statement]
       IN  IF /\ dbs[d].Error = Nil /\ st.Schema # "" /\ HasRelation(st.Schema)
              /\ AssociationsTodo(Heap, Top) # {}
           THEN \E r \in AssociationsTodo(Heap, Top) :
                \E S \in {Session(Heap, d, [ZeroSession EXCEPT !.NewDB = TRUE])} :
                \E M \in {getInstance(S.H, S.res)} :
                \E C \in {Clauses(M.H, M.res, "WHERE")} :
                \E dest \in NestedDests :
                    EnterAssociation(C.H, C.res, dest, r,
                                     QueryConditions(r, st.Dest))
           ELSE Advance(Heap)

\* gorm:delete
DeleteStep ==
    /\ At("gorm:delete")
    /\ \E res \in DriverResults, close \in CloseResults :
         Advance(Delete(Heap, Top.db, res, close))

\* gorm:after_delete
AfterDeleteStep ==
    /\ At("gorm:after_delete")
    /\ IF HookRuns(DeleteHooks(Heap, Top.db))
       THEN InvokeHook(Top.db) ELSE Advance(Heap)

\* gorm:query
QueryStep ==
    /\ At("gorm:query")
    /\ \E res \in DriverResults, close \in CloseResults :
         Advance(Query(Heap, Top.db, res, close))

\* gorm:preload: the relation is loaded by a Query on a session of a new
\* initialized session of the DB
PreloadStep ==
    /\ At("gorm:preload")
    /\ LET d == Top.db
           st == stmts[dbs[d].Statement]
       IN  IF dbs[d].Error = Nil /\ st.Preloads
           THEN IF st.Schema = ""
                THEN Advance(AddError(Heap, d, Err("ErrModelValueRequired")))
                ELSE \E P \in {Session(Heap, d,
                                       [ZeroSession EXCEPT
                                          !.Context = st.Context, !.NewDB = TRUE,
                                          !.SkipHooks = st.SkipHooks,
                                          !.Initialized = TRUE])} :
                     \E H1 \in {[P.H EXCEPT
                                   !.stmts[P.H.dbs[P.res].Statement].Settings =
                                       @ \cup st.Settings]} :
                     \E S \in {Session(H1, P.res,
                                       [ZeroSession EXCEPT
                                          !.Context = st.Context,
                                          !.SkipHooks = st.SkipHooks])} :
                     \E dest \in NestedDests :
                         EnterNested(S.H, S.res, "Query", dest)
           ELSE Advance(Heap)

\* gorm:after_query
AfterQueryStep ==
    /\ At("gorm:after_query")
    /\ IF HookRuns(AfterFindHook(Heap, Top.db))
       THEN InvokeHook(Top.db) ELSE Advance(Heap)

\* gorm:before_create, gorm:after_create, gorm:before_update,
\* gorm:after_update: the hooks of the record, called as by BeforeDelete
SaveHookStep ==
    /\ \/ At("gorm:before_create")
       \/ At("gorm:after_create")
       \/ At("gorm:before_update")
       \/ At("gorm:after_update")
    /\ IF HookRuns(DeleteHooks(Heap, Top.db))
       THEN InvokeHook(Top.db) ELSE Advance(Heap)

\* gorm:save_before_associations, gorm:save_after_associations: the
\* records of a has-many relation are created after the record, on a
\* session of the DB
SaveAssociationsStep ==
    /\ \/ At("gorm:save_before_associations")
       \/ At("gorm:save_after_associations")
    /\ LET d == Top.db
           st == stmts[dbs[d].Statement]
       IN  IF /\ At("gorm:save_after_associations")
              /\ dbs[d].Error = Nil /\ st.Schema # "" /\ HasRelation(st.Schema)
           THEN \E S \in {Session(Heap, d, [ZeroSession EXCEPT !.NewDB = TRUE])} :
                \E dest \in NestedDests : EnterNested(S.H, S.res, "Create", dest)
           ELSE Advance(Heap)

\* gorm:setup_reflect_value: nothing for a value that is a record
SetupUpdateReflectValueStep ==
    /\ At("gorm:setup_reflect_value")
    /\ Advance(Heap)

\* gorm:create, gorm:update
WriteStep ==
    /\ At("gorm:create") \/ At("gorm:update")
    /\ \E res \in DriverResults : Advance(Write(Heap, Top.db, Top.op, res))

\* the handler that began run gets the DB back and has added its error:
\* the loop of DeleteBeforeAssociations and of callMethod go on or the
\* handler returns
ReturnTo(H, parent, run) ==
    IF run.conds # NoConditions
    THEN [H |-> H,
          frame |-> IF AssociationsGoOn(H, parent)
                    THEN parent ELSE [parent EXCEPT !.pc = @ + 1]]
    ELSE IF parent.hook # 0
         THEN AfterHook(H, parent)
         ELSE [H |-> H, frame |-> [parent EXCEPT !.pc = @ + 1]]

\* the handlers are done: Execute resets the statement and returns the DB;
\* the handler that began the run adds the run's error to its DB
ReturnStep ==
    /\ stack # <<>>
    /\ Top.pc > Len(Handlers(Top.op))
    /\ \E n \in {Len(stack)}, H1 \in {ExecuteReset(Heap, Top.db)} :
           IF n > 1
           THEN \E H2 \in {AddError(H1, stack[n - 1].db, H1.dbs[Top.db].Error)} :
                \E P \in {ReturnTo(H2, stack[n - 1], Top)} :
                    /\ Install(P.H)
                    /\ stack' = [SubSeq(stack, 1, n - 1) EXCEPT
                                   ![n - 1] = P.frame]
           ELSE /\ Install(H1)
                /\ stack' = <<>>
    /\ ret' = [op |-> Top.op, recv |-> Top.recv, res |-> Top.db, arg |-> 0]
    /\ UNCHANGED <<Plugins, initCalls, calls>>

----------------------------------------------------------------------------
\* The calls made on the DB values the caller holds.

\* the DB the caller goes on with: the root, or the DB returned last
Targets == {1, ret.res}

\* Open with a dialector and a pool of the caller's choice: a dialector
\* whose delete clauses have RETURNING, a pool that cannot begin
PipelineRoots ==
    LET config == [ZeroConfig EXCEPT !.Logger = DefaultLogger,
                                     !.NowFunc = DefaultNowFunc]
    IN  { Open(config),
          Open([config EXCEPT !.PrepareStmt = TRUE]),
          Open([config EXCEPT !.Dialector = "returning"]),
          [Open(config) EXCEPT !.pools[1] = PlainPool] }

InitPipeline ==
    /\ \E H \in PipelineRoots :
         /\ dbs = H.dbs
         /\ cfgs = H.cfgs
         /\ stmts = H.stmts
         /\ pools = H.pools
         /\ cacheStore = H.cacheStore
         /\ txns = H.txns
         /\ log = H.log
    /\ stack = <<>>
    /\ Plugins = [n \in PluginNames |-> 0]
    /\ initCalls = [p \in PluginSet |-> 0]
    /\ calls = 0
    /\ ret = [op |-> "Open", recv |-> 0, res |-> 1, arg |-> 0]

\* a call that is no finisher, made while no pipeline runs
Prepares(op, d, R, arg) ==
    /\ stack = <<>>
    /\ Returns(op, d, R, arg, MaxOps)

\* a finisher, called on the DB returned last
FinisherCall(ops, dests) ==
    /\ stack = <<>>
    /\ calls < MaxOps
    /\ calls' = calls + 1
    /\ \E op \in ops, dest \in dests : Enter(Heap, ret.res, op, dest)
    /\ UNCHANGED <<Plugins, initCalls, ret>>

PipelineSessionCall(inputs) ==
    \E d \in Targets, config \in inputs :
        Prepares("Session", d, Session(Heap, d, config), config)

PipelineClausesCall(names) ==
    \E d \in Targets, c \in names :
        Prepares("Clauses", d, Clauses(Heap, d, c), c)

PreloadCall ==
    \E d \in Targets : Prepares("Preload", d, Preload(Heap, d), 0)

\* db.Begin() by the caller
BeginCall ==
    \E d \in Targets, ok \in BOOLEAN :
        Prepares("Begin", d, Begin(Heap, d, ok), 0)

ConnectionCall ==
    \E d \in Targets : Prepares("Connection", d, Connection(Heap, d), 0)

\* the Session configs of the runs with transactions
TxnSessions ==
    { ZeroSession,
      [ZeroSession EXCEPT !.SkipDefaultTransaction = TRUE],
      [ZeroSession EXCEPT !.PrepareStmt = TRUE] }

\* the write pipelines and what comes before them
NextTxn ==
    \/ PipelineSessionCall(TxnSessions)
    \/ BeginCall
    \/ ConnectionCall
    \/ FinisherCall({"Create", "Update", "Delete"}, Dests)
    \/ BeginTransactionStep
    \/ BeforeDeleteStep
    \/ DeleteBeforeAssociationsStep
    \/ DeleteStep
    \/ AfterDeleteStep
    \/ SaveHookStep
    \/ SaveAssociationsStep
    \/ SetupUpdateReflectValueStep
    \/ WriteStep
    \/ CommitOrRollbackTransactionStep
    \/ ReturnStep

SpecTxn == InitPipeline /\ [][NextTxn]_vars

\* the Session configs of the runs of Query and Delete
RowsSessions ==
    { [ZeroSession EXCEPT !.DryRun = TRUE],
      [ZeroSession EXCEPT !.SkipHooks = TRUE] }

\* the Query and Delete pipelines and what comes before them
NextRows ==
    \/ PipelineSessionCall(RowsSessions)
    \/ PipelineClausesCall({"WHERE", "RETURNING"})
    \/ PreloadCall
    \/ FinisherCall({"Query", "Delete"}, Dests)
    \/ BeginTransactionStep
    \/ BeforeDeleteStep
    \/ DeleteBeforeAssociationsStep
    \/ DeleteStep
    \/ AfterDeleteStep
    \/ CommitOrRollbackTransactionStep
    \/ QueryStep
    \/ PreloadStep
    \/ AfterQueryStep
    \/ ReturnStep

SpecRows == InitPipeline /\ [][NextRows]_vars

----------------------------------------------------------------------------
\* The default transaction of Create, Update and Delete.

\* C7: a transaction begun by gorm:begin_transaction is touched by
\* gorm:commit_or_rollback_transaction of the same DB only, which commits
\* or rolls it back once: Commit when the DB's error is nil at that point,
\* Rollback when it is not; the run that began it ends with it closed
C7_ClosedOnce ==
    [][ /\ \A t \in DOMAIN txns :
             txns[t].by # 0 =>
               /\ txns'[t] # txns[t] =>
                     /\ At("gorm:commit_or_rollback_transaction")
                     /\ Top.db = txns[t].by
               /\ txns'[t].commits + txns'[t].rollbacks <= 1
               /\ txns'[t].commits > txns[t].commits =>
                     dbs[txns[t].by].Error = Nil
               /\ txns'[t].rollbacks > txns[t].rollbacks =>
                     dbs[txns[t].by].Error # Nil
        /\ (stack # <<>> /\ Len(stack') < Len(stack) /\ Top.started # 0) =>
             /\ txns[Top.started].state # "open"
             /\ txns[Top.started].commits + txns[Top.started].rollbacks = 1
      ]_vars

\* two runs are over: the transaction of one was committed, the
\* transaction of the other rolled back
C7_Witness ==
    /\ stack = <<>>
    /\ \E t, u \in DOMAIN txns :
         /\ txns[t].by # 0 /\ txns[t].commits = 1 /\ txns[t].rollbacks = 0
         /\ txns[u].by # 0 /\ txns[u].commits = 0 /\ txns[u].rollbacks = 1

\* C8 as stated: with skip-default-transaction false, every statement of a
\* write operation goes to the pool of the transaction the operation began
C8_Original ==
    [][ ( /\ stack # <<>>
          /\ Len(log') > Len(log)
          /\ ~cfgs[dbs[stack[1].db].Config].SkipDefaultTransaction ) =>
            /\ stack[1].started # 0
            /\ IsTx(pools'[log'[Len(log')].pool])
            /\ pools'[log'[Len(log')].pool].txn = stack[1].started
      ]_vars

\* C8, amended: when gorm:begin_transaction began a transaction, every
\* statement of the operation (its own, those of the runs on associations
\* and on hook sessions) goes to the pool of that transaction while it is
\* open, and the operation ends with the transaction committed when its
\* error is nil and rolled back (or failed to commit) when it is not; an
\* operation that began none leaves every transaction as it is
C8_AllOrNothing ==
    [][ /\ (stack # <<>> /\ stack[1].started # 0 /\ Len(log') > Len(log)) =>
             /\ txns[stack[1].started].state = "open"
             /\ IsTx(pools'[log'[Len(log')].pool])
             /\ pools'[log'[Len(log')].pool].txn = stack[1].started
        /\ (Len(stack) = 1 /\ stack' = <<>> /\ Top.started # 0) =>
             /\ \A i \in (Top.log0 + 1) .. Len(log) :
                    pools[log[i].pool].txn = Top.started
             /\ dbs[Top.db].Error = Nil =>
                    txns[Top.started].state = "committed"
             /\ dbs[Top.db].Error # Nil =>
                    txns[Top.started].state \in {"rolledback", "failed"}
        /\ (stack # <<>> /\ stack[1].started = 0) =>
             \A t \in DOMAIN txns : txns'[t] = txns[t]
      ]_vars

\* an operation is over whose transaction was rolled back with two
\* statements or more in it
C8_Witness ==
    /\ stack = <<>>
    /\ \E t \in DOMAIN txns :
         /\ txns[t].by # 0
         /\ txns[t].state = "rolledback"
         /\ \E i, j \in DOMAIN log :
              /\ i < j
              /\ log[i].db # log[j].db
              /\ pools[log[i].pool].txn = t
              /\ pools[log[j].pool].txn = t

\* C9 as stated: when gorm:commit_or_rollback_transaction has closed the
\* transaction of the run, the statement's pool is the pool it had when the
\* run began
C9_Original ==
    ( /\ stack # <<>>
      /\ Top.pc > Len(Handlers(Top.op))
      /\ Top.started # 0 ) =>
        stmts[dbs[Top.db].Statement].ConnPool = Top.pool0

\* the handlers of a write on a DB bound to a connection of its own are
\* done, its transaction committed: the statement is on the pool of the
\* Config
C9_Witness ==
    /\ stack # <<>>
    /\ Top.pc > Len(Handlers(Top.op))
    /\ Top.started # 0
    /\ txns[Top.started].state = "committed"
    /\ pools[Top.pool0].kind = "conn"
    /\ stmts[dbs[Top.db].Statement].ConnPool = cfgs[dbs[Top.db].Config].ConnPool
    /\ stmts[dbs[Top.db].Statement].ConnPool # Top.pool0

----------------------------------------------------------------------------
\* Rows affected and errors.

\* C10 as stated: a Query or Delete that ends with an error ends with
\* rows-affected 0
C10_Original ==
    ( /\ stack = <<>>
      /\ ret.op \in {"Query", "Delete"}
      /\ dbs[ret.res].Error # Nil ) =>
        dbs[ret.res].RowsAffected = 0

\* C10, amended: a Query or Delete that ends with an error ends with the
\* rows-affected its DB had when it began if the driver executed no
\* statement of that DB, and with the count of the executed statement if it
\* did, whatever error came after it
C10_RowsOnError ==
    [][ ( /\ stack # <<>>
          /\ Len(stack') < Len(stack)
          /\ Top.op \in {"Query", "Delete"}
          /\ dbs[Top.db].Error # Nil ) =>
            LET done == { i \in (Top.log0 + 1) .. Len(log) :
                            log[i].db = Top.db /\ log[i].err = Nil }
            IN  IF done = {}
                THEN dbs[Top.db].RowsAffected = Top.rows0
                ELSE \A i \in done : dbs[Top.db].RowsAffected = log[i].rows
      ]_vars

\* a Query scanned a row and ended with an error
C10_Witness ==
    /\ stack = <<>>
    /\ ret.op = "Query"
    /\ dbs[ret.res].Error # Nil
    /\ dbs[ret.res].RowsAffected = 1

----------------------------------------------------------------------------
\* What Execute leaves on the statement.

\* C11 as stated: an operation that ends with an error returns a DB whose
\* statement still has the SQL and the vars built for it
C11_Original ==
    [][ ( /\ stack # <<>>
          /\ Len(stack') < Len(stack)
          /\ dbs[Top.db].Error # Nil ) =>
            /\ stmts'[dbs[Top.db].Statement].SQL = stmts[dbs[Top.db].Statement].SQL
            /\ stmts'[dbs[Top.db].Statement].Vars = stmts[dbs[Top.db].Statement].Vars
      ]_vars

\* C11, amended: an operation that ends with an error returns a DB whose
\* statement still has the SQL and the vars built for it when the DB of the
\* statement is in dry-run mode, and has no SQL and no vars when it is not
C11_SQLAfterError ==
    [][ ( /\ stack # <<>>
          /\ Len(stack') < Len(stack)
          /\ dbs[Top.db].Error # Nil ) =>
            LET sid == dbs[Top.db].Statement
            IN  IF cfgs[dbs[stmts[sid].DB].Config].DryRun
                THEN /\ stmts'[sid].SQL = stmts[sid].SQL
                     /\ stmts'[sid].Vars = stmts[sid].Vars
                ELSE /\ stmts'[sid].SQL = <<>>
                     /\ stmts'[sid].Vars = <<>>
      ]_vars

\* a dry-run operation ended with an error and its SQL on the statement
C11_Witness ==
    /\ stack = <<>>
    /\ ret.op \in {"Query", "Delete"}
    /\ dbs[ret.res].Error # Nil
    /\ cfgs[dbs[ret.res].Config].DryRun
    /\ stmts[dbs[ret.res].Statement].SQL # <<>>

----------------------------------------------------------------------------
\* Dry-run.

\* C12 as stated: while a Query or a Delete runs on a DB in dry-run mode,
\* no statement goes to a pool and no pool is asked to begin a transaction
\* (BeginTx answers with a Tx, which is a new pool value)
C12_Original ==
    [][ ( /\ stack # <<>>
          /\ Top.op \in {"Query", "Delete"}
          /\ cfgs[dbs[Top.db].Config].DryRun ) =>
            /\ log' = log
            /\ pools' = pools
            /\ txns' = txns
      ]_vars

\* a Delete in dry-run mode is running in a transaction that its
\* gorm:begin_transaction began, no statement sent
C12_Witness ==
    /\ stack # <<>>
    /\ Top.op = "Delete"
    /\ cfgs[dbs[Top.db].Config].DryRun
    /\ Top.started # 0
    /\ txns[Top.started].state = "open"
    /\ Len(log) = Top.log0

\* db.ToSQL(queryFn): queryFn gets a session in dry-run mode that skips
\* the default transaction
ToSQL(H, d) ==
    Session(H, d, [ZeroSession EXCEPT !.DryRun = TRUE,
                                      !.SkipDefaultTransaction = TRUE])

\* what ToSQL hands to Dialector.Explain: the SQL and the vars of the
\* statement of the DB queryFn returned
Explained(H, tx) ==
    [sql |-> H.stmts[H.dbs[tx].Statement].SQL,
     vars |-> H.stmts[H.dbs[tx].Statement].Vars]

\* ToSQL(queryFn) on the DB Open returned, with a queryFn that calls a
\* finisher on the session, after Clauses(c) or on the session itself
ToSQLCall ==
    /\ stack = <<>>
    /\ calls < MaxOps
    /\ calls' = calls + 1
    /\ \E S \in {ToSQL(Heap, 1)} :
       \E T \in {S, Clauses(S.H, S.res, "WHERE")} :
       \E op \in {"Query", "Delete"}, dest \in Dests :
           Enter(T.H, T.res, op, dest)
    /\ UNCHANGED <<Plugins, initCalls, ret>>

\* ToSQL, and the same calls without it
NextToSQL ==
    \/ ToSQLCall
    \/ PipelineClausesCall({"WHERE"})
    \/ FinisherCall({"Query", "Delete"}, Dests)
    \/ BeginTransactionStep
    \/ BeforeDeleteStep
    \/ DeleteBeforeAssociationsStep
    \/ DeleteStep
    \/ AfterDeleteStep
    \/ CommitOrRollbackTransactionStep
    \/ QueryStep
    \/ PreloadStep
    \/ AfterQueryStep
    \/ ReturnStep

SpecToSQL == InitPipeline /\ [][NextToSQL]_vars

\* the main handler of the running operation, as it goes on the same
\* heap without dry-run: the statement empty as Execute leaves it without
\* dry-run, the driver answering res
WithoutDryRun(res) ==
    LET d == Top.db
        sid == dbs[d].Statement
        H0 == [Heap EXCEPT !.cfgs[dbs[d].Config].DryRun = FALSE,
                           !.stmts[sid].SQL = <<>>,
                           !.stmts[sid].Vars = <<>>]
    IN  IF Top.op = "Query" THEN Query(H0, d, res, Nil)
        ELSE Delete(H0, d, res, Nil)

\* C13 as stated: the main handler of a Query or Delete in dry-run mode
\* sends nothing and leaves on the statement the SQL and the vars that the
\* same handler sends to the pool without dry-run, and leaves every
\* Config there is as it is
C13_Original ==
    [][ ( /\ At("gorm:query") \/ At("gorm:delete")
          /\ cfgs[dbs[Top.db].Config].DryRun ) =>
            /\ log' = log
            /\ \A c \in DOMAIN cfgs : cfgs'[c] = cfgs[c]
            /\ \A res \in DriverResults :
                 LET W == WithoutDryRun(res)
                 IN  Len(W.log) > Len(log) =>
                       /\ Explained(Heap', Top.db).sql = W.log[Len(W.log)].sql
                       /\ Explained(Heap', Top.db).vars = W.log[Len(W.log)].vars
      ]_vars

\* C13, amended: the main handler of a Query or Delete in dry-run mode
\* sends nothing, leaves every Config there is as it is and, when the
\* statement has no SQL yet (the first finisher on it), leaves it as the
\* same handler does without dry-run: with the SQL and the vars that
\* handler sends to the pool
C13_DryRunEquivalence ==
    [][ ( /\ At("gorm:query") \/ At("gorm:delete")
          /\ cfgs[dbs[Top.db].Config].DryRun ) =>
            /\ log' = log
            /\ \A c \in DOMAIN cfgs : cfgs'[c] = cfgs[c]
            /\ stmts[dbs[Top.db].Statement].SQL = <<>> =>
                 \A res \in DriverResults :
                   LET W == WithoutDryRun(res)
                   IN  Len(W.log) > Len(log) =>
                         /\ Explained(Heap', Top.db).sql = W.log[Len(W.log)].sql
                         /\ Explained(Heap', Top.db).vars = W.log[Len(W.log)].vars
                         /\ stmts'[dbs[Top.db].Statement] =
                               W.stmts[dbs[Top.db].Statement]
      ]_vars

\* ToSQL(queryFn) is over for a queryFn that built a statement with a
\* condition: the SQL and the var are on the statement, nothing was sent,
\* the root is not in dry-run mode
C13_Witness ==
    /\ stack = <<>>
    /\ ret.op \in {"Query", "Delete"}
    /\ cfgs[dbs[ret.res].Config].DryRun
    /\ cfgs[dbs[ret.res].Config].SkipDefaultTransaction
    /\ ~cfgs[dbs[1].Config].DryRun
    /\ dbs[ret.res].Error = Nil
    /\ Len(Explained(Heap, ret.res).sql) = 3
    /\ Explained(Heap, ret.res).vars # <<>>
    /\ log = <<>>

----------------------------------------------------------------------------
\* Handlers after an error.

\* C14: a handler of Query or Delete that looks at the error, called on a DB
\* whose error is not nil, changes no DB, statement, Config, pool or
\* transaction, sends nothing and begins no run; the loop goes on to the
\* next handler
C14_SkipOnError ==
    [][ ( /\ stack # <<>>
          /\ Top.op \in {"Query", "Delete"}
          /\ \E h \in {"gorm:begin_transaction", "gorm:query", "gorm:preload",
                       "gorm:after_query", "gorm:before_delete",
                       "gorm:delete_before_associations", "gorm:delete",
                       "gorm:after_delete"} : At(h)
          /\ dbs[Top.db].Error # Nil ) =>
            /\ dbs' = dbs
            /\ stmts' = stmts
            /\ cfgs' = cfgs
            /\ pools' = pools
            /\ txns' = txns
            /\ log' = log
            /\ cacheStore' = cacheStore
            /\ stack' = [stack EXCEPT ![Len(stack)].pc = @ + 1]
      ]_vars

\* a Delete of a record with hooks and a condition got its error before
\* gorm:delete and is at its last handler: every handler between was
\* called, nothing was built or sent
C14_Witness ==
    /\ stack # <<>>
    /\ Top.op = "Delete"
    /\ At("gorm:commit_or_rollback_transaction")
    /\ dbs[Top.db].Error # Nil
    /\ stmts[dbs[Top.db].Statement].Schema = "hooked"
    /\ stmts[dbs[Top.db].Statement].SQL = <<>>
    /\ Len(log) = Top.log0

----------------------------------------------------------------------------
\* Delete without a condition.

\* the Session configs of the runs of Delete
DeleteSessions ==
    { [ZeroSession EXCEPT !.AllowGlobalUpdate = TRUE],
      [ZeroSession EXCEPT !.DryRun = TRUE],
      [ZeroSession EXCEPT !.SkipDefaultTransaction = TRUE] }

\* the Delete pipeline and what comes before it
NextDelete ==
    \/ PipelineSessionCall(DeleteSessions)
    \/ PipelineClausesCall({"WHERE"})
    \/ FinisherCall({"Delete"}, Dests)
    \/ BeginTransactionStep
    \/ BeforeDeleteStep
    \/ DeleteBeforeAssociationsStep
    \/ DeleteStep
    \/ AfterDeleteStep
    \/ CommitOrRollbackTransactionStep
    \/ ReturnStep

SpecDelete == InitPipeline /\ [][NextDelete]_vars

\* C15: gorm:delete on a DB without error and without allow-global-update,
\* whose statement has no WHERE when it is built, adds ErrMissingWhereClause
\* and sends nothing; the Delete ends with an error and with no statement
\* of its DB sent, and the transaction its gorm:begin_transaction began was
\* rolled back, not committed
C15_MissingWhere ==
    [][ /\ ( /\ At("gorm:delete")
             /\ dbs[Top.db].Error = Nil
             /\ ~cfgs[dbs[Top.db].Config].AllowGlobalUpdate
             /\ "WHERE" \notin stmts'[dbs[Top.db].Statement].Clauses ) =>
               /\ dbs'[Top.db].Error = Err("ErrMissingWhereClause")
               /\ log' = log
        /\ ( /\ stack # <<>>
             /\ Len(stack') < Len(stack)
             /\ Top.op = "Delete"
             /\ ~cfgs[dbs[Top.db].Config].AllowGlobalUpdate
             /\ "WHERE" \notin stmts[dbs[Top.db].Statement].Clauses ) =>
               /\ dbs[Top.db].Error # Nil
               /\ \A i \in (Top.log0 + 1) .. Len(log) : log[i].db # Top.db
               /\ Top.started # 0 =>
                    /\ txns[Top.started].rollbacks = 1
                    /\ txns[Top.started].commits = 0
                    /\ txns[Top.started].state = "rolledback"
      ]_vars

\* a Delete of a value without primary key and condition is over: its
\* error is ErrMissingWhereClause, its transaction rolled back, nothing sent
C15_Witness ==
    /\ stack = <<>>
    /\ ret.op = "Delete"
    /\ "WHERE" \notin stmts[dbs[ret.res].Statement].Clauses
    /\ dbs[ret.res].Error = Err("ErrMissingWhereClause")
    /\ log = <<>>
    /\ \E t \in DOMAIN txns : txns[t].by = ret.res /\ txns[t].state = "rolledback"

----------------------------------------------------------------------------
\* The order of the handlers.

\* the four operations on records with hooks and with relations
NextOrder ==
    \/ FinisherCall({"Create", "Query", "Update", "Delete"}, {"hooked", "parent"})
    \/ PreloadCall
    \/ BeginTransactionStep
    \/ BeforeDeleteStep
    \/ DeleteBeforeAssociationsStep
    \/ DeleteStep
    \/ AfterDeleteStep
    \/ SaveHookStep
    \/ SaveAssociationsStep
    \/ SetupUpdateReflectValueStep
    \/ WriteStep
    \/ QueryStep
    \/ PreloadStep
    \/ AfterQueryStep
    \/ CommitOrRollbackTransactionStep
    \/ ReturnStep

SpecOrder == InitPipeline /\ [][NextOrder]_vars

\* the order of the handlers as documented
Documented(op) ==
    CASE op = "Create" ->
           <<"gorm:begin_transaction", "gorm:before_create",
             "gorm:save_before_associations", "gorm:create",
             "gorm:save_after_associations", "gorm:after_create",
             "gorm:commit_or_rollback_transaction">>
      [] op = "Update" ->
           <<"gorm:begin_transaction", "gorm:setup_reflect_value",
             "gorm:before_update", "gorm:save_before_associations",
             "gorm:update", "gorm:save_after_associations",
             "gorm:after_update", "gorm:commit_or_rollback_transaction">>
      [] op = "Delete" ->
           <<"gorm:begin_transaction", "gorm:before_delete",
             "gorm:delete_before_associations", "gorm:delete",
             "gorm:after_delete", "gorm:commit_or_rollback_transaction">>
      [] op = "Query" ->
           <<"gorm:query", "gorm:preload", "gorm:after_query">>

\* C16: a run calls the handlers of its operation in the documented order,
\* one after the other, and ends after the last; so a transaction is begun
\* by the first handler of a write only and closed by its last only, and a
\* statement is sent by the main handler only
C16_HandlerOrder ==
    [][ stack # <<>> =>
          LET doc == Documented(Top.op)
              n == Len(stack)
          IN  /\ Top.pc <= Len(doc) =>
                   /\ At(doc[Top.pc])
                   /\ \/ Len(stack') = n /\ stack'[n].pc = Top.pc + 1
                      \/ /\ Len(stack') = n + 1
                         /\ stack'[n].op = Top.op
                         /\ stack'[n].pc = Top.pc
              /\ Top.pc > Len(doc) =>
                   /\ Top.pc = Len(doc) + 1
                   /\ Len(stack') = n - 1
              /\ Len(txns') > Len(txns) =>
                   Top.pc = 1 /\ doc[1] = "gorm:begin_transaction"
              /\ (\E t \in DOMAIN txns : txns'[t] # txns[t]) =>
                   /\ Top.pc = Len(doc)
                   /\ doc[Top.pc] = "gorm:commit_or_rollback_transaction"
              /\ Len(log') > Len(log) =>
                   doc[Top.pc] \in {"gorm:create", "gorm:update",
                                    "gorm:delete", "gorm:query"}
    ]_vars

\* an Update is at its last handler: its first handler began a
\* transaction and gorm:update sent the statement to it
C16_Witness ==
    /\ stack # <<>>
    /\ Top.op = "Update"
    /\ Top.pc = 8
    /\ At("gorm:commit_or_rollback_transaction")
    /\ Top.started # 0
    /\ txns[Top.started].state = "open"
    /\ Len(log) > Top.log0
    /\ log[Len(log)].db = Top.db

-----------------------------------------------------------------------------
\* The clause builders.  A statement under construction is a Builder: the SQL
\* text written so far, kept as a sequence of tokens, and the bound variables.

\* clauses built into one statement
MaxBuilds == 2

\* raw text written with WriteString / WriteByte
Text(s) == [v |-> 0, kind |-> "text", n |-> 0, text |-> s, table |-> ""]

\* an identifier written through the dialect's quoting
Quoted(table, name) ==
    [v |-> 0, kind |-> "quoted", n |-> 0, text |-> name, table |-> table]

\* a placeholder as the dialect renders it: "?" (n = 0) or "$n"; v remembers
\* the value BindVarTo was called for and is not part of the rendered text
Placeholder(n, v) ==
    [v |-> v, kind |-> "var", n |-> n, text |-> "", table |-> ""]

\* the text of a token as the database sees it
Rendered(t) == [t EXCEPT !.v = 0]

Column(table, name, raw) == [Table |-> table, Name |-> name, Raw |-> raw]

NoColumn == Column("", "", FALSE)

NewBuilder == [Vars |-> <<>>, SQL |-> <<>>]

WriteString(B, s) == [B EXCEPT !.SQL = Append(@, Text(s))]

WriteQuoted(B, column) ==
    [B EXCEPT !.SQL = Append(@, IF column.Raw THEN Text(column.Name)
                                ELSE Quoted(column.Table, column.Name))]

\* Dialector.BindVarTo: "$N" numbers the placeholder by the variables bound so
\* far, N = len(stmt.Vars); the other dialects write "?"
BindVarTo(dialector, B, v) ==
    [B EXCEPT !.SQL = Append(@, Placeholder(IF dialector = "numbered"
                                             THEN Len(B.Vars) ELSE 0, v))]

\* Statement.AddVar for plain values: each value is appended to Vars and one
\* placeholder is rendered for it, values separated by commas
RECURSIVE AddVarFrom(_, _, _, _)
AddVarFrom(B, dialector, values, idx) ==
    IF idx > Len(values) THEN B
    ELSE Let(IF idx > 1 THEN WriteString(B, ",") ELSE B, LAMBDA B1 :
         Let([B1 EXCEPT !.Vars = Append(@, values[idx])], LAMBDA B2 :
         AddVarFrom(BindVarTo(dialector, B2, values[idx]),
                    dialector, values, idx + 1)))

AddVar(B, dialector, values) == AddVarFrom(B, dialector, values, 1)

\* the columns of a column list, separated by commas
RECURSIVE WriteColumns(_, _, _)
WriteColumns(B, columns, idx) ==
    IF idx > Len(columns) THEN B
    ELSE Let(IF idx > 1 THEN WriteString(B, ",") ELSE B, LAMBDA B1 :
         WriteColumns(WriteQuoted(B1, columns[idx]), columns, idx + 1))

\* the tuples of a VALUES clause
RECURSIVE WriteTuples(_, _, _, _)
WriteTuples(B, dialector, rows, idx) ==
    IF idx > Len(rows) THEN B
    ELSE Let(IF idx > 1 THEN WriteString(B, ",") ELSE B, LAMBDA B1 :
         Let(AddVar(WriteString(B1, "("), dialector, rows[idx]), LAMBDA B2 :
         WriteTuples(WriteString(B2, ")"), dialector, rows, idx + 1)))

\* Values.Build
ValuesBuild(B, dialector, values) ==
    IF Len(values.Columns) > 0
    THEN WriteTuples(WriteString(
             WriteString(WriteColumns(WriteString(B, "("), values.Columns, 1),
                         ")"), " VALUES "),
             dialector, values.Values, 1)
    ELSE WriteString(B, "DEFAULT VALUES")

\* a variant that replaces the values and keeps the name of the clause
ValuesMergeClause_keepsName(clause, values) ==
    [clause EXCEPT !.Name = "VALUES", !.Expression = values]

\* Values.MergeClause
ValuesMergeClause(clause, values) ==
    [clause EXCEPT !.Name = "", !.Expression = values]

\* the clause the statement holds under a name before anything is merged
ZeroClause(name) == [Name |-> name, Expression |-> [type |-> "nil"]]

\* the "?" an expression's SQL text holds where a variable goes
Mark == Placeholder(0, 0)

\* clause.Eq with a plain value or with a column as its value
Eq(column, value) ==
    [Column |-> column, type |-> "Eq", IsColumn |-> FALSE,
     ValueColumn |-> NoColumn, Value |-> value]

EqColumn(column, valueColumn) ==
    [Column |-> column, type |-> "Eq", IsColumn |-> TRUE,
     ValueColumn |-> valueColumn, Value |-> 0]

\* clause.Expr: raw SQL with parameters
Expr(sql, values) == [Vars |-> values, SQL |-> sql, type |-> "Expr"]

\* Eq.Build: the quoted column, " = ", and the value, a column value being
\* quoted and any other value bound
EqBuild(B, dialector, eq) ==
    Let(WriteString(WriteQuoted(B, eq.Column), " = "), LAMBDA B1 :
        IF eq.IsColumn THEN WriteQuoted(B1, eq.ValueColumn)
        ELSE AddVar(B1, dialector, <<eq.Value>>))

\* the placeholder written last stands where the text had a placeholder for
\* the value v (v = 0: the text came with a bare "?")
Stands(B, v) ==
    IF v = 0 THEN B ELSE [B EXCEPT !.SQL[Len(B.SQL)].v = v]

\* Expr.Build: the text is copied, each "?" that has a variable left being
\* bound to the next variable
RECURSIVE ExprBuildFrom(_, _, _, _, _)
ExprBuildFrom(B, dialector, expr, pos, idx) ==
    IF pos > Len(expr.SQL) THEN B
    ELSE IF Rendered(expr.SQL[pos]) = Mark /\ idx <= Len(expr.Vars)
         THEN ExprBuildFrom(Stands(AddVar(B, dialector, <<expr.Vars[idx]>>),
                                   expr.SQL[pos].v),
                            dialector, expr, pos + 1, idx + 1)
         ELSE ExprBuildFrom([B EXCEPT !.SQL = Append(@, expr.SQL[pos])],
                            dialector, expr, pos + 1, idx)

ExprBuild(B, dialector, expr) == ExprBuildFrom(B, dialector, expr, 1, 1)

\* Where.Build: the conjuncts joined by " AND "
RECURSIVE WhereBuildFrom(_, _, _, _)
WhereBuildFrom(B, dialector, exprs, idx) ==
    IF idx > Len(exprs) THEN B
    ELSE Let(IF idx > 1 THEN WriteString(B, " AND ") ELSE B, LAMBDA B1 :
         WhereBuildFrom(IF exprs[idx].type = "Eq"
                        THEN EqBuild(B1, dialector, exprs[idx])
                        ELSE ExprBuild(B1, dialector, exprs[idx]),
                        dialector, exprs, idx + 1))

WhereBuild(B, dialector, exprs) == WhereBuildFrom(B, dialector, exprs, 1)

\* strings.Replace(sql, old, new, 1): the first occurrence of the rendered
\* text old becomes new
RECURSIVE ReplaceFirst(_, _, _, _)
ReplaceFirst(sql, old, new, pos) ==
    IF pos > Len(sql) THEN sql
    ELSE IF Rendered(sql[pos]) = Rendered(old)
         THEN [sql EXCEPT ![pos] = [new EXCEPT !.v = sql[pos].v]]
         ELSE ReplaceFirst(sql, old, new, pos + 1)

\* the placeholder the dialect writes for the idx-th variable of the ON
\* statement, rendered into a writer of its own
Bindvar(dialector, onVars, idx) ==
    BindVarTo(dialector, [Vars |-> SubSeq(onVars, 1, idx), SQL |-> <<>>],
              onVars[idx]).SQL[1]

\* a variant that leaves the ON text as the scratch statement rendered it
Rebind_none(dialector, onSQL, onVars, idx) == onSQL

\* the loop of genJoinClause that turns the placeholders of the ON text,
\* which was built on a statement of its own, back into "?"
RECURSIVE Rebind(_, _, _, _)
Rebind(dialector, onSQL, onVars, idx) ==
    IF idx > Len(onVars) THEN onSQL
    ELSE Rebind(dialector,
                ReplaceFirst(onSQL, Bindvar(dialector, onVars, idx), Mark, 1),
                onVars, idx + 1)

\* the name that stands for the table of the statement until it is built
CurrentTable == "~~~ct~~~"

\* utils.NestedRelationName
NestedRelationName(prefix, name) == prefix \o "__" \o name

\* the alias genJoinClause joins the table of the relation under: the name of
\* the relation, after the alias of its parent when it is nested
TableAliasName(parentTableName, relation) ==
    IF parentTableName # CurrentTable
    THEN NestedRelationName(parentTableName, relation.Name)
    ELSE relation.Name

\* the equality a reference of the relationship contributes to ON
ReferenceExpr(parentTableName, tableAliasName, ref) ==
    IF ref.OwnPrimaryKey
    THEN EqColumn(Column(parentTableName, ref.PrimaryKey, FALSE),
                  Column(tableAliasName, ref.ForeignKey, FALSE))
    ELSE IF ref.PrimaryValue = 0
         THEN EqColumn(Column(parentTableName, ref.ForeignKey, FALSE),
                       Column(tableAliasName, ref.PrimaryKey, FALSE))
         ELSE Eq(Column(tableAliasName, ref.ForeignKey, FALSE),
                 ref.PrimaryValue)

\* the ON conditions of genJoinClause: one equality for each reference, and
\* the WHERE of the relation's query clauses and of join.On, built on a
\* statement of its own and re-bound
JoinON(dialector, parentTableName, relation, join) ==
    LET exprs == [idx \in DOMAIN relation.References |->
                    ReferenceExpr(parentTableName,
                                  TableAliasName(parentTableName, relation),
                                  relation.References[idx])]
        where == relation.QueryClauses \o join.On
    IN  IF where = <<>> THEN exprs
        ELSE Let(WhereBuild(NewBuilder, dialector, where), LAMBDA onStmt :
                 IF onStmt.SQL = <<>> THEN exprs
                 ELSE Append(exprs,
                             Expr(Rebind(dialector, onStmt.SQL, onStmt.Vars, 1),
                                  onStmt.Vars)))

\* genJoinClause
genJoinClause(dialector, parentTableName, relation, join) ==
    [Table |-> [Name |-> relation.Table,
                Alias |-> TableAliasName(parentTableName, relation)],
     Type |-> join.Type,
     ON |-> JoinON(dialector, parentTableName, relation, join)]

\* Join.Build of a join without an expression of its own and without USING
JoinBuild(B, dialector, join) ==
    Let(IF join.Type # "" THEN WriteString(WriteString(B, join.Type), " ")
        ELSE B, LAMBDA B1 :
    Let(WriteQuoted(WriteString(B1, "JOIN "),
                    Column(join.Table.Alias, join.Table.Name, FALSE)),
        LAMBDA B2 :
        IF Len(join.ON) > 0
        THEN WhereBuild(WriteString(B2, " ON "), dialector, join.ON)
        ELSE B2))

\* clause.IN
InValues(column, values) ==
    [Values |-> values, Column |-> column, type |-> "IN"]

\* IN.Build: no value gives IN (NULL), one value an equality, more a list
INBuild(B, dialector, e) ==
    Let(WriteQuoted(B, e.Column), LAMBDA B1 :
        IF Len(e.Values) = 0 THEN WriteString(B1, " IN (NULL)")
        ELSE IF Len(e.Values) = 1
             THEN AddVar(WriteString(B1, " = "), dialector, e.Values)
             ELSE WriteString(AddVar(WriteString(B1, " IN ("), dialector,
                                     e.Values), ")"))

\* the conjuncts Delete adds for the primary key values of Dest and of Model
PrimaryConjuncts(table, destValues, modelValues) ==
    LET column == Column(table, "id", FALSE)
    IN  (IF Len(destValues) > 0 THEN <<InValues(column, destValues)>> ELSE <<>>)
        \o (IF Len(modelValues) > 0 THEN <<InValues(column, modelValues)>>
            ELSE <<>>)

\* a WHERE clause of conjuncts that are all IN
RECURSIVE ConjunctsBuild(_, _, _, _)
ConjunctsBuild(B, dialector, exprs, idx) ==
    IF idx > Len(exprs) THEN B
    ELSE Let(IF idx > 1 THEN WriteString(B, " AND ") ELSE B, LAMBDA B1 :
         ConjunctsBuild(INBuild(B1, dialector, exprs[idx]),
                        dialector, exprs, idx + 1))

\* a variant that puts DISTINCT before "*" as well
SelectBuild_distinctStar(B, s) ==
    Let(IF s.Distinct THEN WriteString(B, "DISTINCT ") ELSE B, LAMBDA B1 :
        IF Len(s.Columns) > 0 THEN WriteColumns(B1, s.Columns, 1)
        ELSE WriteString(B1, "*"))

\* Select.Build
SelectBuild(B, s) ==
    IF Len(s.Columns) > 0
    THEN WriteColumns(IF s.Distinct THEN WriteString(B, "DISTINCT ") ELSE B,
                      s.Columns, 1)
    ELSE WriteString(B, "*")

\* a variant that keeps the column list when there is an expression
SelectMergeClause_columnsWin(clause, s) ==
    IF s.Expression.type # "nil" /\ Len(s.Columns) = 0
    THEN [clause EXCEPT !.Expression = s.Expression]
    ELSE [clause EXCEPT !.Expression = s]

\* Select.MergeClause
SelectMergeClause(clause, s) ==
    IF s.Expression.type # "nil"
    THEN IF s.Distinct /\ s.Expression.type = "Expr"
         THEN [clause EXCEPT !.Expression =
                  [s.Expression EXCEPT !.SQL = <<Text("DISTINCT ")>> \o @]]
         ELSE [clause EXCEPT !.Expression = s.Expression]
    ELSE [clause EXCEPT !.Expression = s]

\* CommaExpression.Build
RECURSIVE CommaBuild(_, _, _, _)
CommaBuild(B, dialector, exprs, idx) ==
    IF idx > Len(exprs) THEN B
    ELSE Let(IF idx > 1 THEN WriteString(B, ", ") ELSE B, LAMBDA B1 :
         CommaBuild(ExprBuild(B1, dialector, exprs[idx]),
                    dialector, exprs, idx + 1))

\* From.Build of a FROM without tables of its own: the current table, then
\* each join after a space
RECURSIVE FromBuild(_, _, _, _)
FromBuild(B, dialector, joins, idx) ==
    IF idx = 0
    THEN FromBuild(WriteQuoted(B, Column("", CurrentTable, FALSE)),
                   dialector, joins, 1)
    ELSE IF idx > Len(joins) THEN B
         ELSE FromBuild(JoinBuild(WriteString(B, " "), dialector, joins[idx]),
                        dialector, joins, idx + 1)

\* Expression.Build of the expressions a clause holds
ExpressionBuild(B, dialector, e) ==
    CASE e.type = "Values" -> ValuesBuild(B, dialector, e)
      [] e.type = "Select" -> SelectBuild(B, e)
      [] e.type = "Expr"   -> ExprBuild(B, dialector, e)
      [] e.type = "Comma"  -> CommaBuild(B, dialector, e.Exprs, 1)
      [] e.type = "Where"  -> ConjunctsBuild(B, dialector, e.Exprs, 1)
      [] e.type = "From"   -> FromBuild(B, dialector, e.Joins, 0)
      [] OTHER             -> B

\* Clause.Build of a clause without a builder of its own and without the
\* expressions before and after
ClauseBuild(B, dialector, c) ==
    IF c.Expression.type # "nil"
    THEN ExpressionBuild(IF c.Name # ""
                         THEN WriteString(WriteString(B, c.Name), " ")
                         ELSE B,
                         dialector, c.Expression)
    ELSE B

-----------------------------------------------------------------------------
\* Building clauses into a statement: each step merges a clause and builds it
\* onto the text and the variables the statement has so far.

\* the dialect of the database the statement is built for
BuilderDialector == cfgs[dbs[1].Config].Dialector

BuilderRoots ==
    LET config == [ZeroConfig EXCEPT !.Logger = DefaultLogger,
                                     !.NowFunc = DefaultNowFunc]
    IN  { Open(config), Open([config EXCEPT !.Dialector = "numbered"]) }

InitBuilder ==
    /\ \E H \in BuilderRoots :
         /\ dbs = H.dbs
         /\ cfgs = H.cfgs
         /\ stmts = H.stmts
         /\ pools = H.pools
         /\ cacheStore = H.cacheStore
         /\ txns = H.txns
         /\ log = H.log
    /\ stack = <<>>
    /\ Plugins = [n \in PluginNames |-> 0]
    /\ initCalls = [p \in PluginSet |-> 0]
    /\ calls = 0
    /\ ret = [op |-> "Open", recv |-> 0, res |-> 1, arg |-> 0]

\* Statement.Build reaching a clause: a space after the clauses written
\* before, then the clause
BuildStep(op, clause, arg) ==
    /\ calls < MaxBuilds
    /\ \E B \in {IF calls = 0 THEN NewBuilder ELSE WriteString(ret.res, " ")} :
         ret' = [op |-> op, recv |-> B,
                 res |-> ClauseBuild(B, BuilderDialector, clause),
                 arg |-> arg]
    /\ calls' = calls + 1
    /\ UNCHANGED <<dbs, cfgs, stmts, pools, cacheStore, Plugins, initCalls,
                   txns, log, stack>>

ColumnLists ==
    { <<>>, <<Column("", "name", FALSE)>>,
      <<Column("", "name", FALSE), Column("", "age", FALSE)>> }

RowLists ==
    { <<>>, << <<1, 2>>, <<3, 4>> >>, << <<1>>, <<>> >> }

ValuesInputs ==
    { [Values |-> rows, Columns |-> columns, type |-> "Values"] :
        columns \in ColumnLists, rows \in RowLists }

\* the VALUES clause before the merge: nothing yet, or values merged earlier
EarlierValues ==
    { ZeroClause("VALUES"),
      ValuesMergeClause(ZeroClause("VALUES"),
                        [Values |-> << <<8>> >>,
                         Columns |-> <<Column("", "id", FALSE)>>,
                         type |-> "Values"]) }

\* AddClause(Values) and the build of the VALUES clause
ValuesCall ==
    \E earlier \in EarlierValues, values \in ValuesInputs :
      BuildStep("Values", ValuesMergeClause(earlier, values),
                [values |-> values, earlier |-> earlier])

References ==
    LET own == [OwnPrimaryKey |-> TRUE, PrimaryKey |-> "id",
                ForeignKey |-> "user_id", PrimaryValue |-> 0]
        foreign == [own EXCEPT !.OwnPrimaryKey = FALSE,
                               !.ForeignKey = "company_id"]
        valued == [foreign EXCEPT !.ForeignKey = "owner_type",
                                  !.PrimaryValue = 9]
    IN  { <<foreign>>, <<own, valued>>,
          <<valued, [valued EXCEPT !.PrimaryValue = 4]>> }

Relations ==
    { [Table |-> "companies", Name |-> "Company", References |-> refs,
       QueryClauses |-> clauses] :
        refs \in References,
        clauses \in { <<>>, <<Expr(<<Text("deleted_at IS NULL")>>, <<>>)>> } }

JoinInputs ==
    LET alive == Column("Company", "alive", FALSE)
        rank == Expr(<<Text("rank > "), Mark, Text(" AND rank < "), Mark>>,
                     <<5, 6>>)
    IN  { [On |-> <<>>, Type |-> ""],
          [On |-> <<rank>>, Type |-> "LEFT"],
          [On |-> <<Eq(alive, 7), rank>>, Type |-> "LEFT"] }

\* BuildQuerySQL turning a pending join of a relationship into an inline join
\* and the build of the FROM clause
JoinCall ==
    \E relation \in Relations, join \in JoinInputs :
      BuildStep("From",
                [Name |-> "FROM",
                 Expression |->
                   [type |-> "From",
                    Joins |-> <<genJoinClause(BuilderDialector, CurrentTable,
                                              relation, join)>>]],
                [relation |-> relation, join |-> join])

\* Delete adding the conjuncts of the primary key and the build of WHERE
PrimaryWhereCall ==
    \E destValues \in {<<>>, <<1, 2>>}, modelValues \in {<<>>, <<3>>} :
      /\ Len(destValues) + Len(modelValues) > 0
      /\ BuildStep("Where",
                   [Name |-> "WHERE",
                    Expression |->
                      [type |-> "Where",
                       Exprs |-> PrimaryConjuncts("users", destValues,
                                                  modelValues)]],
                   [destValues |-> destValues, modelValues |-> modelValues])

SelectInputs ==
    LET count == Expr(<<Text("count(*)")>>, <<>>)
        older == Expr(<<Text("age > "), Mark>>, <<5>>)
    IN  { [Columns |-> columns, Expression |-> expression,
           type |-> "Select", Distinct |-> distinct] :
            distinct \in BOOLEAN,
            columns \in ColumnLists \ { <<Column("", "name", FALSE)>> },
            expression \in { [type |-> "nil"], older,
                             [type |-> "Comma", Exprs |-> <<count, older>>] } }

\* the SELECT clause before the merge: nothing yet, or a Select merged earlier
EarlierSelects ==
    { ZeroClause("SELECT"),
      SelectMergeClause(ZeroClause("SELECT"),
                        [Columns |-> <<Column("", "id", FALSE)>>,
                         Expression |-> [type |-> "nil"],
                         type |-> "Select", Distinct |-> TRUE]) }

\* AddClause(Select) and the build of the SELECT clause
SelectCall ==
    \E earlier \in EarlierSelects, s \in SelectInputs :
      BuildStep("Select", SelectMergeClause(earlier, s),
                [earlier |-> earlier, select |-> s])

NextBuilder ==
    \/ ValuesCall
    \/ JoinCall
    \/ PrimaryWhereCall
    \/ SelectCall

SpecBuilder == InitBuilder /\ [][NextBuilder]_vars

\* the placeholders of a text, in the order they were written
Placeholders(sql) == SelectSeq(sql, LAMBDA t : t.kind = "var")

\* C17: in every statement built from VALUES rows, from the ON conditions of
\* a relationship join (built on a statement of their own and re-bound) and
\* from the conjuncts of the primary key, the text has as many placeholders as
\* there are variables, and the i-th placeholder is the dialect's placeholder
\* for position i and stands for the i-th variable.
C17_PlaceholdersMatchVars ==
    ret.op \in {"Values", "From", "Where"} =>
        LET ph == Placeholders(ret.res.SQL)
        IN  /\ Len(ph) = Len(ret.res.Vars)
            /\ \A i \in DOMAIN ph :
                 /\ ph[i].v = ret.res.Vars[i]
                 /\ ph[i].n = IF BuilderDialector = "numbered" THEN i ELSE 0

\* a join whose ON was re-bound with two variables, built for a dialect that
\* numbers its placeholders onto a statement that had a variable already
C17_Witness ==
    /\ ret.op = "From"
    /\ BuilderDialector = "numbered"
    /\ Len(ret.recv.Vars) > 0
    /\ Len(ret.arg.join.On) = 2
    /\ ret.arg.relation.References[1].PrimaryValue # 0
    /\ Len(ret.res.Vars) >= Len(ret.recv.Vars) + 4

\* the sequences of a sequence, one after the other with sep between them
RECURSIVE Joined(_, _)
Joined(parts, sep) ==
    IF Len(parts) = 0 THEN <<>>
    ELSE IF Len(parts) = 1 THEN parts[1]
         ELSE parts[1] \o <<sep>> \o Joined(Tail(parts), sep)

\* the sequences of a sequence, one after the other
RECURSIVE Concat(_)
Concat(parts) ==
    IF Len(parts) = 0 THEN <<>> ELSE parts[1] \o Concat(Tail(parts))

\* a text with each placeholder as a bare "?"
Shape(sql) ==
    [i \in DOMAIN sql |-> IF sql[i].kind = "var" THEN Mark ELSE sql[i]]

\* what the last step wrote and bound
Written == SubSeq(ret.res.SQL, Len(ret.recv.SQL) + 1, Len(ret.res.SQL))

Bound == SubSeq(ret.res.Vars, Len(ret.recv.Vars) + 1, Len(ret.res.Vars))

\* C18: a Values clause merged into the VALUES clause and built writes, with
\* at least one column, the quoted columns in parentheses, " VALUES " and one
\* tuple in parentheses for each row, the tuples separated by commas and the
\* values of each row bound in order; without columns it writes
\* DEFAULT VALUES whatever the rows.  The merge replaces the values merged
\* earlier and clears the name of the clause, so that no "VALUES " comes
\* before the text of the expression.
C18_ValuesClause ==
    ret.op = "Values" =>
        LET values == ret.arg.values
            columns == [i \in DOMAIN values.Columns |->
                          <<Quoted("", values.Columns[i].Name)>>]
            tuples == [r \in DOMAIN values.Values |->
                         <<Text("(")>>
                         \o Joined([j \in DOMAIN values.Values[r] |-> <<Mark>>],
                                   Text(","))
                         \o <<Text(")")>>]
        IN  IF Len(values.Columns) > 0
            THEN /\ Shape(Written) =
                      <<Text("(")>> \o Joined(columns, Text(","))
                      \o <<Text(")"), Text(" VALUES ")>>
                      \o Joined(tuples, Text(","))
                 /\ Bound = Concat(values.Values)
                 /\ Len(Bound) = Len(Placeholders(Written))
                 /\ \A i \in DOMAIN Bound : Placeholders(Written)[i].v = Bound[i]
            ELSE /\ Written = <<Text("DEFAULT VALUES")>>
                 /\ Bound = <<>>

\* DEFAULT VALUES written for rows without columns, over values merged
\* earlier, after a VALUES clause with columns and rows was built
C18_Witness ==
    /\ ret.op = "Values"
    /\ ret.arg.values.Columns = <<>>
    /\ ret.arg.values.Values # <<>>
    /\ ret.arg.earlier.Expression.type = "Values"
    /\ \E i \in DOMAIN ret.recv.SQL : ret.recv.SQL[i] = Text(" VALUES ")
    /\ Len(ret.recv.Vars) = 4

\* the text and the variables an expression of a Select stands for
SelectExpressionSQL(e) ==
    IF e.type = "Expr" THEN e.SQL
    ELSE Joined([i \in DOMAIN e.Exprs |-> e.Exprs[i].SQL], Text(", "))

SelectExpressionVars(e) ==
    IF e.type = "Expr" THEN e.Vars
    ELSE Concat([i \in DOMAIN e.Exprs |-> e.Exprs[i].Vars])

\* C19: a Select with an expression merged into the SELECT clause makes the
\* expression the content of the clause, its columns being ignored, with
\* "DISTINCT " before it when distinct is set and the expression is raw SQL;
\* a Select without expression becomes the content itself; either way what
\* was merged earlier is replaced.  A Select without columns builds "*", one
\* with columns the quoted columns separated by commas, after "DISTINCT " when
\* distinct is set.
C19_SelectClause ==
    ret.op = "Select" =>
        LET s == ret.arg.select
            columns == [i \in DOMAIN s.Columns |->
                          <<Quoted("", s.Columns[i].Name)>>]
            distinct == IF s.Distinct THEN <<Text("DISTINCT ")>> ELSE <<>>
            content == SubSeq(Written, 3, Len(Written))
        IN  /\ SubSeq(Written, 1, 2) = <<Text("SELECT"), Text(" ")>>
            /\ IF s.Expression.type # "nil"
               THEN /\ Shape(content) =
                         (IF s.Expression.type = "Expr" THEN distinct
                          ELSE <<>>) \o SelectExpressionSQL(s.Expression)
                    /\ Bound = SelectExpressionVars(s.Expression)
               ELSE /\ content = IF Len(s.Columns) = 0 THEN <<Text("*")>>
                                 ELSE distinct \o Joined(columns, Text(","))
                    /\ Bound = <<>>

\* a distinct Select with columns and a raw expression merged over a Select
\* merged earlier, and built
C19_Witness ==
    /\ ret.op = "Select"
    /\ ret.arg.select.Distinct
    /\ ret.arg.select.Expression.type = "Expr"
    /\ Len(ret.arg.select.Columns) = 2
    /\ ret.arg.earlier.Expression.type = "Select"
    /\ Len(Bound) = 1

-----------------------------------------------------------------------------
\* The SELECT list of a query: BuildQuerySQL choosing the columns from the
\* selects, the omits and the schema of the statement, and from its joins.

\* no schema: the statement was given a table and no model
NilSchema == [IsNil |-> TRUE, DBNames |-> <<>>]

UserSchema == [IsNil |-> FALSE, DBNames |-> <<"id", "name", "age">>]

\* the name of the struct field that a column of the schema belongs to
FieldName(dbName) ==
    CASE dbName = "id" -> "ID"
      [] dbName = "name" -> "Name"
      [] dbName = "age" -> "Age"
      [] OTHER -> dbName

\* Schema.LookUpField: the column name of the field that has the given column
\* name or field name, "" when there is none
LookUpField(schema, name) ==
    IF \E i \in DOMAIN schema.DBNames :
           schema.DBNames[i] = name \/ FieldName(schema.DBNames[i]) = name
    THEN CHOOSE n \in {schema.DBNames[i] : i \in DOMAIN schema.DBNames} :
             n = name \/ FieldName(n) = name
    ELSE ""

\* the columns of the relationship a join names, under the alias of the join
JoinedAlias == "Company"

JoinedColumns == <<Column(JoinedAlias, "id", FALSE)>>

\* the column of an explicit select
SelectedColumn(st, name) ==
    IF st.Schema.IsNil THEN Column("", name, TRUE)
    ELSE IF LookUpField(st.Schema, name) # ""
         THEN Column("", LookUpField(st.Schema, name), FALSE)
         ELSE Column("", name, TRUE)

\* a variant that leaves the columns of the schema without their table
TableColumns_bare(st, names) ==
    [i \in DOMAIN names |-> Column("", names[i], FALSE)]

\* the columns of the schema qualified with the table of the statement
TableColumns(st, names) ==
    [i \in DOMAIN names |-> Column(st.Table, names[i], FALSE)]

\* true for a statement with a pending join or a join inline in FROM
HasJoins(st) == Len(st.Joins) # 0 \/ st.FromJoins # 0

\* the destination of the query: a value of the model type ("model"), of a
\* struct type with fewer fields ("smaller"), a value that has no schema
\* ("unparsed"), or no valid value at all ("invalid")
QueryDests == {"model", "smaller", "unparsed", "invalid"}

\* the column names of the schema that stmt.Parse(Dest) gives
DestDBNames(st) ==
    IF st.Dest = "smaller" THEN <<"id", "name">> ELSE st.Schema.DBNames

\* the columns of the schema that are not omitted
NotOmitted(st) ==
    SelectSeq(st.Schema.DBNames,
              LAMBDA n : \A i \in DOMAIN st.Omits : st.Omits[i] # n)

\* the columns of the destination, when the query fields are asked for or the
\* destination is not of the model type, and the destination has a schema
SmallerStructColumns(st) ==
    IF /\ st.QueryFields \/ st.Dest # "model"
       /\ st.Dest # "unparsed"
       /\ st.QueryFields \/ st.Dest = "smaller"
    THEN TableColumns(st, DestDBNames(st))
    ELSE <<>>

\* a variant in which the omits win over the explicit selects
BaseColumns_omitsFirst(st) ==
    IF ~st.Schema.IsNil /\ Len(st.Omits) > 0
    THEN TableColumns(st, NotOmitted(st))
    ELSE IF Len(st.Selects) > 0
         THEN [i \in DOMAIN st.Selects |-> SelectedColumn(st, st.Selects[i])]
         ELSE IF ~st.Schema.IsNil /\ st.Dest # "invalid"
              THEN SmallerStructColumns(st)
              ELSE <<>>

\* the columns of clauseSelect before the joins are looked at
BaseColumns(st) ==
    IF Len(st.Selects) > 0
    THEN [i \in DOMAIN st.Selects |-> SelectedColumn(st, st.Selects[i])]
    ELSE IF ~st.Schema.IsNil /\ Len(st.Omits) > 0
         THEN TableColumns(st, NotOmitted(st))
         ELSE IF ~st.Schema.IsNil /\ st.Dest # "invalid"
              THEN SmallerStructColumns(st)
              ELSE <<>>

\* the columns a pending join adds: those of the joined table for the join of
\* a relationship, none for a join given as SQL
RECURSIVE JoinsColumns(_, _)
JoinsColumns(st, idx) ==
    IF idx > Len(st.Joins) THEN <<>>
    ELSE (IF ~st.Schema.IsNil /\ st.Joins[idx] = "relation"
          THEN JoinedColumns ELSE <<>>) \o JoinsColumns(st, idx + 1)

\* clauseSelect as BuildQuerySQL leaves it
QueryColumns(st) ==
    IF HasJoins(st)
    THEN (IF Len(st.Selects) = 0 /\ Len(st.Omits) = 0 /\ ~st.Schema.IsNil
          THEN TableColumns(st, st.Schema.DBNames)
          ELSE BaseColumns(st)) \o JoinsColumns(st, 1)
    ELSE BaseColumns(st)

QueryStatements ==
    { [Dest |-> dest, Schema |-> schema, QueryFields |-> queryFields,
       Table |-> "users", Distinct |-> distinct, Joins |-> joins,
       FromJoins |-> fromJoins, Omits |-> omits, Selects |-> selects] :
        dest \in QueryDests,
        schema \in {NilSchema, UserSchema}, distinct \in BOOLEAN,
        selects \in {<<>>, <<"name">>, <<"Name", "count(*)">>},
        omits \in {<<>>, <<"age">>}, queryFields \in BOOLEAN,
        joins \in {<<>>, <<"relation">>, <<"raw">>, <<"raw", "relation">>},
        fromJoins \in {0, 1} }

\* a statement after the chain methods, before the finisher
InitQuery ==
    /\ \E H \in BuilderRoots :
         /\ dbs = H.dbs
         /\ cfgs = H.cfgs
         /\ stmts = H.stmts
         /\ pools = H.pools
         /\ cacheStore = H.cacheStore
         /\ txns = H.txns
         /\ log = H.log
    /\ stack = <<>>
    /\ Plugins = [n \in PluginNames |-> 0]
    /\ initCalls = [p \in PluginSet |-> 0]
    /\ calls = 0
    /\ \E st \in QueryStatements :
         ret = [op |-> "Statement", recv |-> 0, res |-> st, arg |-> 0]

\* BuildQuerySQL as far as the SELECT clause goes: the clause is built only
\* if the statement has no SQL yet
BuildSelect(B, dialector, st) ==
    IF Len(B.SQL) = 0
    THEN ClauseBuild(B, dialector,
                     SelectMergeClause(ZeroClause("SELECT"),
                         [Columns |-> QueryColumns(st),
                          Expression |-> [type |-> "nil"],
                          type |-> "Select",
                          Distinct |-> st.Distinct]))
    ELSE B

\* BuildQuerySQL on a statement that has no SQL yet
QueryColumnsCall ==
    /\ ret.op = "Statement"
    /\ ret' = [op |-> "BuildQuerySQL", recv |-> NewBuilder,
               res |-> BuildSelect(NewBuilder, BuilderDialector, ret.res),
               arg |-> ret.res]
    /\ calls' = calls + 1
    /\ UNCHANGED <<dbs, cfgs, stmts, pools, cacheStore, Plugins, initCalls,
                   txns, log, stack>>

\* the statements of a second query on a statement that kept its SQL
AgainStatements ==
    { st \in QueryStatements :
        /\ st.Dest = "model" /\ ~st.Schema.IsNil /\ ~st.Distinct
        /\ st.QueryFields /\ st.Joins = <<>> /\ st.FromJoins = 0
        /\ st.Omits = <<>> }

\* BuildQuerySQL on a statement that holds the SQL of an earlier query, the
\* selects having changed since
QueryAgainCall ==
    /\ ret.op = "BuildQuerySQL"
    /\ \E st \in AgainStatements :
         ret' = [op |-> "BuildQuerySQL again", recv |-> ret.res,
                 res |-> BuildSelect(ret.res, BuilderDialector, st),
                 arg |-> st]
    /\ calls' = calls + 1
    /\ UNCHANGED <<dbs, cfgs, stmts, pools, cacheStore, Plugins, initCalls,
                   txns, log, stack>>

NextQuery ==
    \/ QueryColumnsCall
    \/ QueryAgainCall

SpecQuery == InitQuery /\ [][NextQuery]_vars

\* the columns of the base table in the SELECT list that was written: the
\* quoted columns that are not columns of a joined table
BaseTableColumns ==
    SelectSeq(ret.res.SQL,
              LAMBDA t : t.kind = "quoted" /\ t.table # JoinedAlias)

\* C20 as stated: with at least one join, pending or inline in FROM, every
\* column of the base table in the SELECT list is qualified with the table of
\* the statement, whether it comes from explicit selects, from omits or from
\* the columns of the schema.
C20_Original ==
    (ret.op = "BuildQuerySQL" /\ HasJoins(ret.arg)) =>
        \A i \in DOMAIN BaseTableColumns :
            BaseTableColumns[i].table = ret.arg.Table

\* C20: with at least one join, pending or inline in FROM, every column of
\* the base table that comes from omits or from the columns of the schema is
\* qualified with the table of the statement; the columns of explicit selects
\* are written as selected, the fields of the schema by their column name
\* without a table.
C20_QualifiedColumns ==
    (ret.op = "BuildQuerySQL" /\ HasJoins(ret.arg)) =>
        IF Len(ret.arg.Selects) = 0
        THEN /\ \A i \in DOMAIN BaseTableColumns :
                  BaseTableColumns[i].table = ret.arg.Table
             /\ ~ret.arg.Schema.IsNil =>
                  Len(BaseTableColumns) =
                      Len(ret.arg.Schema.DBNames) - Len(ret.arg.Omits)
        ELSE \A i \in DOMAIN BaseTableColumns :
                 /\ BaseTableColumns[i].table = ""
                 /\ \E j \in DOMAIN ret.arg.Selects :
                      LookUpField(ret.arg.Schema, ret.arg.Selects[j]) =
                          BaseTableColumns[i].text

\* a query with omits and the join of a relationship, its columns written
C20_Witness ==
    /\ ret.op = "BuildQuerySQL"
    /\ ret.arg.Joins = <<"relation">>
    /\ ret.arg.Omits # <<>>
    /\ ret.arg.Selects = <<>>
    /\ Len(BaseTableColumns) = 2
    /\ \E i \in DOMAIN ret.res.SQL : ret.res.SQL[i].table = JoinedAlias

\* the items of the SELECT list that was written, the columns of a joined
\* table aside: the name of the clause, the separators and DISTINCT are not
\* items
BaseItems ==
    SelectSeq(ret.res.SQL,
              LAMBDA t : /\ t.table # JoinedAlias
                         /\ ~(/\ t.kind = "text"
                              /\ t.text \in {"SELECT", " ", ",", "DISTINCT "}))

\* the items that the explicit selects ask for, in their order
SelectItems(st) ==
    [i \in DOMAIN st.Selects |->
        IF \E j \in DOMAIN st.Schema.DBNames :
               st.Selects[i] \in {st.Schema.DBNames[j],
                                  FieldName(st.Schema.DBNames[j])}
        THEN Quoted("", CHOOSE n \in {"id", "name", "age"} :
                            st.Selects[i] \in {n, FieldName(n)})
        ELSE Text(st.Selects[i])]

\* the columns of the table of the statement with the given names
TableItems(st, names) == [i \in DOMAIN names |-> Quoted(st.Table, names[i])]

\* C21: BuildQuerySQL composes the base columns of the SELECT list by strict
\* priority. Explicit selects come first, in the order given, a name of the
\* schema written as its column name and any other name written raw. Without
\* selects the omits give every column of the schema that is not omitted.
\* Without either and without joins, the columns of the destination are
\* written when the query fields are asked for or the destination is of
\* another type than the model, and "*" in every other case. On a statement
\* that already holds SQL nothing is built: SQL and vars stay as they were.
C21_SelectPriority ==
    /\ ret.op = "BuildQuerySQL" =>
         IF Len(ret.arg.Selects) > 0
         THEN BaseItems = SelectItems(ret.arg)
         ELSE IF ~ret.arg.Schema.IsNil /\ Len(ret.arg.Omits) > 0
              THEN BaseItems =
                       TableItems(ret.arg,
                           SelectSeq(ret.arg.Schema.DBNames,
                               LAMBDA n : \A i \in DOMAIN ret.arg.Omits :
                                              ret.arg.Omits[i] # n))
              ELSE ~HasJoins(ret.arg) =>
                     IF /\ ~ret.arg.Schema.IsNil
                        /\ ret.arg.Dest = "smaller"
                     THEN BaseItems = TableItems(ret.arg, <<"id", "name">>)
                     ELSE IF /\ ~ret.arg.Schema.IsNil
                             /\ ret.arg.Dest = "model"
                             /\ ret.arg.QueryFields
                          THEN BaseItems =
                                   TableItems(ret.arg, ret.arg.Schema.DBNames)
                          ELSE BaseItems = <<Text("*")>>
    /\ ret.op = "BuildQuerySQL again" =>
         /\ ret.res = ret.recv
         /\ Len(ret.res.SQL) > 0

\* a query into a smaller struct, then a second query on the statement that
\* kept its SQL, the selects having changed
C21_Witness ==
    /\ ret.op = "BuildQuerySQL again"
    /\ ret.arg.Selects = <<"Name", "count(*)">>
    /\ BaseItems = <<Quoted("users", "id"), Quoted("users", "name")>>

\* ---------------------------------------------------------------------
\* The joins of BuildQuerySQL (callbacks/query.go)
\* ---------------------------------------------------------------------

\* the number of pending joins of a statement
MaxJoins == 3

\* the record types of the schema: a user has a manager, who is a user, and a
\* company
ModelTable(model) ==
    CASE model = "User" -> "users"
      [] model = "Company" -> "companies"
      [] OTHER -> ""

ModelDBNames(model) ==
    CASE model = "User" -> <<"id", "name">>
      [] model = "Company" -> <<"id">>
      [] OTHER -> <<>>

\* the names in Schema.Relationships.Relations
RelationNames(model) ==
    IF model = "User" THEN {"Manager", "Company"} ELSE {}

\* Schema.Relationships.Relations[name]: a belongs-to with one reference
Relationship(model, name) ==
    [Table |-> ModelTable(IF name = "Manager" THEN "User" ELSE "Company"),
     Name |-> name,
     References |-> <<[OwnPrimaryKey |-> FALSE, PrimaryKey |-> "id",
                       ForeignKey |-> IF name = "Manager" THEN "manager_id"
                                      ELSE "company_id",
                       PrimaryValue |-> 0]>>,
     QueryClauses |-> <<>>,
     FieldSchema |-> IF name = "Manager" THEN "User" ELSE "Company"]

\* the name of a join is held as the parts that strings.Split(name, ".")
\* gives; this is the name itself
RECURSIVE Dotted(_)
Dotted(parts) ==
    IF Len(parts) = 1 THEN parts[1]
    ELSE parts[1] \o "." \o Dotted(Tail(parts))

\* the relations of a nested name like "Manager.Company": each part is
\* looked up in the relations of the schema the part before leads to; a part
\* that is not found makes the whole name raw SQL
RECURSIVE GuessNestedRelations(_, _, _)
GuessNestedRelations(model, names, relations) ==
    IF names = <<>> THEN relations
    ELSE IF Head(names) \in RelationNames(model)
         THEN GuessNestedRelations(
                  Relationship(model, Head(names)).FieldSchema, Tail(names),
                  Append(relations, Relationship(model, Head(names))))
         ELSE <<>>

\* the relations a join names, none when it is raw SQL
JoinRelations(model, join) ==
    IF Len(join.Name) = 1 /\ join.Name[1] \in RelationNames(model)
    THEN <<Relationship(model, join.Name[1])>>
    ELSE IF Len(join.Name) > 1
         THEN GuessNestedRelations(model, join.Name, <<>>)
         ELSE <<>>

\* the columns genJoinClause adds to clauseSelect for the joined table
JoinColumns(parentTableName, relation) ==
    [i \in DOMAIN ModelDBNames(relation.FieldSchema) |->
        [Table |-> TableAliasName(parentTableName, relation),
         Name |-> ModelDBNames(relation.FieldSchema)[i],
         Raw |-> FALSE,
         Alias |-> NestedRelationName(
                       TableAliasName(parentTableName, relation),
                       ModelDBNames(relation.FieldSchema)[i])]]

\* a variant that takes no relation for joined
Specified_never(L, nestedAlias) == FALSE

\* specifiedRelationsName[nestedAlias]
Specified(L, nestedAlias) == nestedAlias \in L.specified

\* the loop over the relations of one join: a relation is joined under its
\* parent unless its nested alias was joined before
RECURSIVE JoinEach(_, _, _, _, _, _)
JoinEach(dialector, L, join, relations, idx, parentTableName) ==
    IF idx > Len(relations) THEN L
    ELSE JoinEach(dialector,
             IF Specified(L, NestedRelationName(parentTableName,
                                                relations[idx].Name))
             THEN L
             ELSE [Joins |-> Append(L.Joins,
                                 genJoinClause(dialector, parentTableName,
                                               relations[idx], join)),
                   Columns |-> L.Columns
                               \o JoinColumns(parentTableName, relations[idx]),
                   specified |-> L.specified \cup
                       {NestedRelationName(parentTableName,
                                           relations[idx].Name)}],
             join, relations, idx + 1,
             IF parentTableName # CurrentTable
             THEN NestedRelationName(parentTableName, relations[idx].Name)
             ELSE relations[idx].Name)

\* a join that is raw SQL; the conditions of the joins are left out
RawJoin(join) ==
    [Expression |-> [Vars |-> <<>>, SQL |-> Dotted(join.Name)]]

\* the loop over the pending joins of the statement
RECURSIVE ResolveJoins(_, _, _, _)
ResolveJoins(dialector, st, L, idx) ==
    IF idx > Len(st.Joins) THEN L
    ELSE ResolveJoins(dialector, st,
             IF st.Schema # "" /\ JoinRelations(st.Schema, st.Joins[idx]) # <<>>
             THEN JoinEach(dialector, L, st.Joins[idx],
                           JoinRelations(st.Schema, st.Joins[idx]), 1,
                           CurrentTable)
             ELSE [L EXCEPT !.Joins = Append(@, RawJoin(st.Joins[idx]))],
             idx + 1)

\* BuildQuerySQL resolving the joins of a statement without selects and
\* omits: the joins of FROM, the columns of SELECT and the joins left pending
BuildJoins(dialector, st) ==
    IF Len(st.Joins) # 0 \/ Len(st.FromJoins) # 0
    THEN Let(ResolveJoins(dialector, st,
                 [Joins |-> st.FromJoins,
                  Columns |-> IF st.Schema # ""
                              THEN TableColumns(st, ModelDBNames(st.Schema))
                              ELSE <<>>,
                  specified |-> {}], 1),
             LAMBDA L : [From |-> L.Joins, Columns |-> L.Columns,
                         Joins |-> <<>>])
    ELSE [From |-> <<>>, Columns |-> <<>>, Joins |-> st.Joins]

JoinNames ==
    { <<"Manager">>, <<"Company">>, <<"Manager", "Company">>,
      <<"Manager", "Manager">>, <<"Manager", "Manager", "Company">>,
      <<"Manager", "Nope">>, <<"JOIN emails">> }

\* the lists of at most n joins
RECURSIVE JoinLists(_)
JoinLists(n) ==
    IF n = 0 THEN {<<>>}
    ELSE JoinLists(n - 1) \cup
         { Append(joins, [Name |-> name, On |-> <<>>, Type |-> "LEFT"]) :
             joins \in JoinLists(n - 1), name \in JoinNames }

JoinStatements ==
    { [Schema |-> schema, Table |-> "users", Joins |-> joins,
       FromJoins |-> fromJoins] :
        schema \in {"", "User"}, joins \in JoinLists(MaxJoins),
        fromJoins \in {<<>>, <<RawJoin([Name |-> <<"JOIN orders">>])>>} }

InitJoins ==
    /\ \E H \in BuilderRoots :
         /\ dbs = H.dbs
         /\ cfgs = H.cfgs
         /\ stmts = H.stmts
         /\ pools = H.pools
         /\ cacheStore = H.cacheStore
         /\ txns = H.txns
         /\ log = H.log
    /\ stack = <<>>
    /\ Plugins = [n \in PluginNames |-> 0]
    /\ initCalls = [p \in PluginSet |-> 0]
    /\ calls = 0
    /\ \E st \in JoinStatements :
         ret = [op |-> "Statement", recv |-> 0, res |-> st, arg |-> 0]

\* BuildQuerySQL on a statement with the given joins
JoinsCall ==
    /\ ret.op = "Statement"
    /\ ret' = [op |-> "BuildQuerySQL", recv |-> 0,
               res |-> BuildJoins(BuilderDialector, ret.res),
               arg |-> ret.res]
    /\ calls' = calls + 1
    /\ UNCHANGED <<dbs, cfgs, stmts, pools, cacheStore, Plugins, initCalls,
                   txns, log, stack>>

NextJoins == JoinsCall

SpecJoins == InitJoins /\ [][NextJoins]_vars

\* true of the parts of a name that lead from relation to relation
RECURSIVE IsRelationPath(_, _)
IsRelationPath(model, path) ==
    \/ path = <<>>
    \/ /\ Head(path) \in RelationNames(model)
       /\ IsRelationPath(IF Head(path) = "Manager" THEN "User" ELSE "Company",
                         Tail(path))

\* the record type a relation path leads to
RECURSIVE PathModel(_, _)
PathModel(model, path) ==
    IF path = <<>> THEN model
    ELSE PathModel(IF Head(path) = "Manager" THEN "User" ELSE "Company",
                   Tail(path))

\* the relation paths the joins of the statement ask for: the names that are
\* relation paths, and each path on the way to them
JoinPaths ==
    UNION { { SubSeq(ret.arg.Joins[i].Name, 1, k) :
                k \in 1..Len(ret.arg.Joins[i].Name) } :
            i \in { j \in DOMAIN ret.arg.Joins :
                      IsRelationPath(ret.arg.Schema, ret.arg.Joins[j].Name) } }

\* the alias of a relation path: its names with "__" between them
RECURSIVE PathAlias(_)
PathAlias(path) ==
    IF Len(path) = 1 THEN path[1]
    ELSE PathAlias(SubSeq(path, 1, Len(path) - 1)) \o "__" \o path[Len(path)]

\* the places in FROM where a table is joined under the given alias
JoinedAt(alias) ==
    { i \in DOMAIN ret.res.From :
        /\ "Table" \in DOMAIN ret.res.From[i]
        /\ ret.res.From[i].Table.Alias = alias }

\* the columns of SELECT that belong to the table joined under an alias
ColumnsOf(alias) ==
    SelectSeq(ret.res.Columns, LAMBDA c : c.Table = alias)

\* C22: for any list of joins of relationships, nested names and repeated or
\* overlapping paths included, each relation path is joined exactly once and
\* nothing else is joined as a relation; the join of a parent comes before
\* the join of its child and the child's ON refers to the alias of the
\* parent; the alias of a nested table is Parent__Child; the columns of a
\* joined table are selected once each under the alias <table alias>__<column>;
\* and no join is left pending on the statement.
C22_JoinedOnce ==
    ret.op = "BuildQuerySQL" /\ "From" \in DOMAIN ret.res =>
        /\ \A path \in JoinPaths :
             /\ Cardinality(JoinedAt(PathAlias(path))) = 1
             /\ \A i \in JoinedAt(PathAlias(path)) :
                  /\ ret.res.From[i].Table.Name =
                         ModelTable(PathModel(ret.arg.Schema, path))
                  /\ ret.res.From[i].ON[1].Column.Table =
                         IF Len(path) = 1 THEN CurrentTable
                         ELSE PathAlias(SubSeq(path, 1, Len(path) - 1))
                  /\ Len(path) > 1 =>
                       \E j \in JoinedAt(PathAlias(SubSeq(path, 1,
                                                          Len(path) - 1))) :
                           j < i
             /\ ColumnsOf(PathAlias(path)) =
                    [k \in DOMAIN ModelDBNames(PathModel(ret.arg.Schema, path))
                       |-> [Table |-> PathAlias(path),
                            Name |-> ModelDBNames(
                                PathModel(ret.arg.Schema, path))[k],
                            Raw |-> FALSE,
                            Alias |-> PathAlias(path) \o "__" \o
                                ModelDBNames(
                                    PathModel(ret.arg.Schema, path))[k]]]
        /\ Cardinality({ i \in DOMAIN ret.res.From :
                           "Table" \in DOMAIN ret.res.From[i] }) =
               Cardinality(JoinPaths)
        /\ ret.res.Joins = <<>>

\* "Manager.Company", "Manager" and "Manager.Company" again: the manager is
\* joined first, the manager's company under Manager__Company, each once
C22_Witness ==
    /\ ret.op = "BuildQuerySQL" /\ "From" \in DOMAIN ret.res
    /\ Len(ret.arg.Joins) = 3
    /\ ret.arg.Joins[1].Name = <<"Manager", "Company">>
    /\ ret.arg.Joins[2].Name = <<"Manager">>
    /\ ret.arg.Joins[3].Name = <<"Manager", "Company">>
    /\ ret.arg.FromJoins = <<>>
    /\ Len(ret.res.From) = 2
    /\ ret.res.From[1].Table.Alias = "Manager"
    /\ ret.res.From[2].Table.Alias = "Manager__Company"
    /\ \E i \in DOMAIN ret.res.Columns :
         /\ ret.res.Columns[i].Table = "Manager__Company"
         /\ ret.res.Columns[i].Alias = "Manager__Company__id"

\* ---------------------------------------------------------------------
\* Threads: calls on DBs of one root that run at the same time (gorm.go)
\* ---------------------------------------------------------------------

\* the number of calls the threads make
MaxThreads == 3

\* stack[t] is the call of thread t: the method, its receiver, the DB it
\* works on, the place it has reached, its argument and, for Session, what
\* db.cacheStore.Load gave. A step is what lies between two accesses to
\* memory that another thread can write: sync.Map makes Load and Store
\* atomic one by one, not the pair

InitThreads ==
    /\ \E config \in OpenConfigs :
         \E H \in {Open(config)} :
             /\ dbs = H.dbs
             /\ cfgs = H.cfgs
             /\ stmts = H.stmts
             /\ pools = H.pools
             /\ cacheStore = H.cacheStore
             /\ txns = H.txns
             /\ log = H.log
    /\ stack = <<>>
    /\ Plugins = [n \in PluginNames |-> 0]
    /\ initCalls = [p \in PluginSet |-> 0]
    /\ calls = 0
    /\ ret = [op |-> "Open", recv |-> 0, res |-> 1, arg |-> 0]

\* the DBs a thread holds: the root, and what a call has returned
Returned == {1} \cup { stack[t].db : t \in { u \in DOMAIN stack :
                                              stack[u].pc = "done" } }

ThreadSessions ==
    { [ZeroSession EXCEPT !.PrepareStmt = TRUE],
      [ZeroSession EXCEPT !.PrepareStmt = TRUE, !.NewDB = TRUE] }

\* a thread calls db.Session(&Session{PrepareStmt: true}) and gets as far as
\* db.cacheStore.Load(preparedStmtDBKey)
SessionLoad ==
    /\ calls < MaxThreads
    /\ \E d \in Returned, config \in ThreadSessions :
         /\ Install(SessionBegin(Heap, d, config))
         /\ stack' = Append(stack,
                [v |-> cacheStore, db |-> Len(dbs) + 1, op |-> "Session",
                 recv |-> d, arg |-> config, pc |-> "loaded"])
    /\ calls' = calls + 1
    /\ UNCHANGED <<Plugins, initCalls, ret>>

\* the thread goes on from the load: it stores a new PreparedStmtDB if it
\* loaded none, wraps the pool of its statement and returns
SessionStore(t) ==
    /\ stack[t].op = "Session" /\ stack[t].pc = "loaded"
    /\ \E R \in {SessionEnd(Heap, stack[t].recv, stack[t].db, stack[t].arg,
                            stack[t].v)} :
         /\ Install(R.H)
         /\ stack' = [stack EXCEPT ![t].pc = "done", ![t].db = R.res]
    /\ UNCHANGED <<Plugins, initCalls, calls, ret>>

\* a thread starts Set or InstanceSet on the root: getInstance
RootGetInstance ==
    /\ calls < MaxThreads
    /\ \E op \in {"Set", "InstanceSet"}, key \in Keys, value \in Values :
         \E G \in {getInstance(Heap, 1)} :
             /\ Install(G.H)
             /\ stack' = Append(stack,
                    [v |-> 0, db |-> G.res, op |-> op, recv |-> 1,
                     arg |-> <<key, value>>, pc |-> "instance"])
    /\ calls' = calls + 1
    /\ UNCHANGED <<Plugins, initCalls, ret>>

\* the thread stores the value in the settings of its instance and returns
RootStore(t) ==
    /\ stack[t].op \in {"Set", "InstanceSet"} /\ stack[t].pc = "instance"
    /\ Install(IF stack[t].op = "Set"
               THEN SetStore(Heap, stack[t].db, stack[t].arg[1],
                             stack[t].arg[2])
               ELSE InstanceSetStore(Heap, stack[t].db, stack[t].arg[1],
                                     stack[t].arg[2]))
    /\ stack' = [stack EXCEPT ![t].pc = "done"]
    /\ UNCHANGED <<Plugins, initCalls, calls, ret>>

\* the thread goes on with the DB it got and an error is added to it
RootAddError(t) ==
    /\ stack[t].op \in {"Set", "InstanceSet"} /\ stack[t].pc = "done"
    /\ dbs[stack[t].db].Error = Nil
    /\ Install(AddError(Heap, stack[t].db, Err("e1")))
    /\ UNCHANGED <<Plugins, initCalls, calls, ret, stack>>

NextThreads ==
    \/ SessionLoad
    \/ \E t \in DOMAIN stack : SessionStore(t)
    \/ RootGetInstance
    \/ \E t \in DOMAIN stack : RootStore(t)
    \/ \E t \in DOMAIN stack : RootAddError(t)

SpecThreads == InitThreads /\ [][NextThreads]_vars

\* the sessions with PrepareStmt that have returned
PreparedSessions ==
    { t \in DOMAIN stack : stack[t].op = "Session" /\ stack[t].pc = "done" }

\* the map and the mutex the statement of a DB prepares with
StmtsOf(d) == pools[stmts[dbs[d].Statement].ConnPool].cache

\* C23 as stated: all the sessions made with PrepareStmt from DBs of one
\* root prepare with the same map and the same mutex, also when two threads
\* call Session at the same time on a root whose cache store holds no
\* prepared-statement cache yet.
C23_Original ==
    \A t, u \in PreparedSessions : StmtsOf(stack[t].db) = StmtsOf(stack[u].db)

\* two threads both loaded nothing from the cache store of a root opened
\* without PrepareStmt, each stored a PreparedStmtDB of its own, and their
\* sessions prepare with different maps
C23_Witness ==
    /\ ~cfgs[1].PrepareStmt
    /\ \E t, u \in PreparedSessions :
         /\ t # u
         /\ stack[t].recv = 1 /\ stack[u].recv = 1
         /\ stack[t].v = 0 /\ stack[u].v = 0
         /\ StmtsOf(stack[t].db) # StmtsOf(stack[u].db)
         /\ cacheStore \in {StmtsOf(stack[t].db), StmtsOf(stack[u].db)}

\* the calls that went through getInstance on the root
RootCalls ==
    { t \in DOMAIN stack : stack[t].op \in {"Set", "InstanceSet"} }

\* C24: any number of threads may start operations from the root at the same
\* time. The root has clone-state 1; each call that goes through getInstance
\* works on a new DB with a new statement of its own, which no other call
\* and not the root has; and in every interleaving the root keeps its
\* statement, its error, its rows-affected and its clone-state as Open left
\* them.
C24_RootUntouched ==
    /\ dbs[1] = [Config |-> 1, Error |-> Nil, RowsAffected |-> 0,
                 Statement |-> 1, clone |-> 1]
    /\ stmts[1] = [ZeroStatement EXCEPT !.DB = 1,
                                        !.ConnPool = cfgs[1].ConnPool,
                                        !.Context = Background]
    /\ \A t \in RootCalls :
         /\ stack[t].db # 1
         /\ dbs[stack[t].db].Statement # 1
         /\ stmts[dbs[stack[t].db].Statement].DB = stack[t].db
         /\ \A u \in DOMAIN stack :
              u # t =>
                /\ stack[u].db # stack[t].db
                /\ dbs[stack[u].db].Statement # dbs[stack[t].db].Statement

\* three threads on the root at once: all have their instance before any has
\* stored its value; then one has stored and failed, one has stored, one not
C24_Witness ==
    /\ Len(stack) = 3
    /\ RootCalls = {1, 2, 3}
    /\ stack[1].pc = "done" /\ dbs[stack[1].db].Error # Nil
    /\ stack[2].pc = "done" /\ dbs[stack[2].db].Error = Nil
    /\ stack[3].pc = "instance"
    /\ stmts[dbs[stack[1].db].Statement].Settings # {}
    /\ stmts[dbs[stack[3].db].Statement].Settings = {}

\* ---------------------------------------------------------------------
\* Operations inside an open transaction (callbacks/transaction.go)
\* ---------------------------------------------------------------------

\* the started-transaction marker as InstanceGet reads it on DB d
Marker(ss, ds, d) ==
    Load(ss[ds[d].Statement].Settings, <<ds[d].Statement, StartedTransaction>>)

\* the run in progress is about to begin its transaction on a pool that
\* offers no BeginTx: db.Begin() gives ErrInvalidTransaction
BeginsInvalid ==
    /\ At("gorm:begin_transaction")
    /\ enableTransaction(Heap, Top.db)
    /\ dbs[Top.db].Error = Nil
    /\ ~CanBegin(pools, stmts[dbs[Top.db].Statement].ConnPool)

\* the run in progress is about to begin its transaction on a pool that
\* offers BeginTx
BeginsOnPool ==
    /\ At("gorm:begin_transaction")
    /\ enableTransaction(Heap, Top.db)
    /\ dbs[Top.db].Error = Nil
    /\ CanBegin(pools, stmts[dbs[Top.db].Statement].ConnPool)

\* C25: a run whose begin_transaction gets ErrInvalidTransaction, as a run
\* inside an open transaction does (a cascade delete, a statement of a
\* hook's session), goes on without an error on its DB and stores no marker
\* on its instance; a run begun by a handler has no marker at all, as the
\* marker of the run above it is kept under the statement of that run; and
\* its commit_or_rollback neither commits nor rolls back, so a transaction
\* is closed only by the run that began it. A Begin that fails in another
\* way leaves its error on the DB and stores no marker either.
C25_NestedTransaction ==
    [][ /\ BeginsInvalid =>
             /\ dbs'[Top.db].Error = Nil
             /\ stmts'[dbs'[Top.db].Statement].Settings =
                    stmts[dbs[Top.db].Statement].Settings
             /\ stack'[Len(stack)].started = 0
             /\ txns' = txns
             /\ \A n \in 1 .. Len(stack) - 1 :
                  /\ Marker(stmts', dbs', Top.db) = 0
                  /\ dbs[stack[n].db].Statement # dbs[Top.db].Statement
                  /\ stack[n].started # 0 =>
                         Marker(stmts', dbs', stack[n].db) # 0
        /\ ( /\ At("gorm:commit_or_rollback_transaction")
             /\ Len(stack) > 1
             /\ Top.started = 0 ) =>
               /\ txns' = txns
               /\ stmts' = stmts
               /\ dbs' = dbs
        /\ \A t \in DOMAIN txns :
             (txns[t].by # 0 /\ txns'[t] # txns[t]) =>
                 /\ Top.db = txns[t].by
                 /\ Top.started = t
        /\ (BeginsOnPool /\ Len(txns') = Len(txns)) =>
             /\ dbs'[Top.db].Error = Err("begin failed")
             /\ stmts'[dbs'[Top.db].Statement].Settings =
                    stmts[dbs[Top.db].Statement].Settings
             /\ stack'[Len(stack)].started = 0
      ]_vars

\* the cascade delete of a Delete that began a transaction has run all its
\* handlers: it has no error and no marker, the run above it has its marker
\* and the transaction is open
C25_Witness ==
    /\ Len(stack) = 2
    /\ stack[1].op = "Delete" /\ Top.op = "Delete"
    /\ Handlers("Delete")[stack[1].pc] = "gorm:delete_before_associations"
    /\ Top.pc > Len(Handlers(Top.op))
    /\ Top.started = 0
    /\ IsTx(pools[Top.pool0])
    /\ Len(log) > Top.log0
    /\ dbs[Top.db].Error = Nil
    /\ Marker(stmts, dbs, Top.db) = 0
    /\ stack[1].started # 0
    /\ txns[stack[1].started].state = "open"
    /\ Marker(stmts, dbs, stack[1].db) # 0

\* ---------------------------------------------------------------------
\* The cascade of Delete (callbacks/callbacks.go)
\* ---------------------------------------------------------------------

CascadeDests == {"plain", "parent", "family", "orphan"}

CascadeSessions ==
    { [ZeroSession EXCEPT !.SkipDefaultTransaction = TRUE] }

\* Delete of records with selected relations, with or without a condition
\* of the caller and a default transaction
NextCascade ==
    \/ PipelineSessionCall(CascadeSessions)
    \/ PipelineClausesCall({"WHERE"})
    \/ FinisherCall({"Delete"}, CascadeDests)
    \/ BeginTransactionStep
    \/ BeforeDeleteStep
    \/ DeleteBeforeAssociationsStep
    \/ DeleteStep
    \/ AfterDeleteStep
    \/ CommitOrRollbackTransactionStep
    \/ ReturnStep

SpecCascade == InitPipeline /\ [][NextCascade]_vars

\* the run in progress is the delete of a relation
IsAssociation(frame) == frame.conds # NoConditions

\* the last statement in the log after the step was sent by the step, for
\* the run in progress
Sends == Len(log') > Len(log) /\ log'[Len(log')].db = Top.db

\* C26: in the Delete pipeline the deletes of the selected relations are
\* sent before the DELETE of the parent: when the parent sends its DELETE
\* every selected relation that is not skipped has been visited. When the
\* delete of a relation fails, its error is on the DB of the parent, the
\* loop is left and no other relation is deleted, the parent sends no DELETE
\* of its own, and the transaction that the parent began is rolled back.
C26_CascadeFirst ==
    [][ /\ (stack # <<>> /\ ~IsAssociation(Top) /\ Sends) =>
             /\ At("gorm:delete")
             /\ dbs[Top.db].Error = Nil
             /\ AssociationsTodo(Heap, Top) = {}
             /\ \A i \in (Top.log0 + 1) .. Len(log) : log[i].db # Top.db
        /\ (Len(stack) > 1 /\ IsAssociation(Top) /\ Len(stack') < Len(stack)
            /\ dbs[Top.db].Error # Nil) =>
             /\ dbs[Top.db].Error.is \subseteq dbs'[stack[Len(stack) - 1].db].Error.is
             /\ stack'[Len(stack')].pc = stack[Len(stack) - 1].pc + 1
        /\ \A n \in DOMAIN stack' :
             (n > 1 /\ IsAssociation(stack'[n])) =>
                 /\ dbs'[stack'[n - 1].db].Error = Nil
                 /\ Handlers(stack'[n - 1].op)[stack'[n - 1].pc] =
                        "gorm:delete_before_associations"
        /\ (At("gorm:commit_or_rollback_transaction") /\ Top.started # 0
            /\ dbs[Top.db].Error # Nil) =>
             /\ txns'[Top.started].rollbacks = 1
             /\ txns'[Top.started].commits = 0
             /\ txns'[Top.started].state = "rolledback"
      ]_vars

\* has-many deleted, then many-to-many failed at the driver; has-one was
\* never deleted; the parent has sent nothing, holds the error, and its
\* transaction is rolled back
C26_Witness ==
    /\ Len(stack) = 1
    /\ Top.op = "Delete"
    /\ Top.pc > Len(Handlers(Top.op))
    /\ stmts[dbs[Top.db].Statement].Dest = "family"
    /\ Top.rel = {"has_many", "many_to_many"}
    /\ "driver failed" \in dbs[Top.db].Error.is
    /\ Top.started # 0
    /\ txns[Top.started].state = "rolledback"
    /\ Len(log) = Top.log0 + 2
    /\ \A i \in (Top.log0 + 1) .. Len(log) : log[i].db # Top.db

\* C27 as stated: DeleteBeforeAssociations never deletes the records of a
\* relation by an IN without values: for a relation of any type, has-one,
\* has-many or many-to-many, the delete is skipped when the parent records
\* yield no key values.
C27_Original ==
    \A n \in DOMAIN stack :
        IsAssociation(stack[n]) => Len(stack[n].conds.values) > 0

\* the parent has no key values: its has-many relation was skipped, and the
\* delete of the join rows of its many-to-many relation, whose IN has no
\* values, was sent to the pool
C27_Witness ==
    /\ Len(stack) = 2
    /\ stmts[dbs[stack[1].db].Statement].Dest = "orphan"
    /\ stack[1].rel = {"many_to_many"}
    /\ Top.conds = [relation |-> "many_to_many", values |-> <<>>]
    /\ Len(log) > Top.log0
    /\ log[Len(log)].db = Top.db
    /\ "WHERE" \in stmts[dbs[Top.db].Statement].Clauses

\* ---------------------------------------------------------------------
\* The hooks of the record (gorm.go, callbacks/callmethod.go)
\* ---------------------------------------------------------------------

HookDests == {"hooked", "value", "unaddr", "slice"}

\* sessions with and without skip-hooks, as new and as initialized DB
HookSessions ==
    { ZeroSession,
      [ZeroSession EXCEPT !.SkipHooks = TRUE],
      [ZeroSession EXCEPT !.SkipHooks = TRUE, !.NewDB = TRUE],
      [ZeroSession EXCEPT !.SkipHooks = TRUE, !.Initialized = TRUE],
      [ZeroSession EXCEPT !.SkipHooks = TRUE, !.NewDB = TRUE,
                          !.Initialized = TRUE] }

\* Query and Delete of a record with hooks, on the root or on a session
NextSkipHooks ==
    \/ PipelineSessionCall(HookSessions)
    \/ FinisherCall({"Query", "Delete"}, {"hooked"})
    \/ BeginTransactionStep
    \/ BeforeDeleteStep
    \/ DeleteBeforeAssociationsStep
    \/ DeleteStep
    \/ AfterDeleteStep
    \/ CommitOrRollbackTransactionStep
    \/ QueryStep
    \/ PreloadStep
    \/ AfterQueryStep
    \/ ReturnStep

SpecSkipHooks == InitPipeline /\ [][NextSkipHooks]_vars

\* Query and Delete of records and slices of records with hooks
NextHooks ==
    \/ FinisherCall({"Query", "Delete"}, HookDests)
    \/ BeginTransactionStep
    \/ BeforeDeleteStep
    \/ DeleteBeforeAssociationsStep
    \/ DeleteStep
    \/ AfterDeleteStep
    \/ CommitOrRollbackTransactionStep
    \/ QueryStep
    \/ PreloadStep
    \/ AfterQueryStep
    \/ ReturnStep

\* the root opened with the default config on a pool that can begin
InitHooks ==
    /\ InitPipeline
    /\ cfgs[1].Dialector = "plain"
    /\ ~cfgs[1].PrepareStmt
    /\ pools[1] # PlainPool

SpecHooks == InitHooks /\ [][NextHooks]_vars

\* the outermost run is an operation on the DB that Session gave for a
\* config with skip-hooks
OnSkipHooksSession ==
    /\ stack # <<>>
    /\ ret.op = "Session"
    /\ ret.arg.SkipHooks
    /\ stack[1].recv = ret.res

\* C28 as stated: for every operation run through a DB obtained from
\* Session(SkipHooks: true), with or without NewDB and Initialized, the
\* statement of the operation has skip-hooks true and no hook of the record
\* is invoked.
C28_Original ==
    OnSkipHooksSession =>
        /\ stmts[dbs[stack[1].db].Statement].SkipHooks
        /\ stack[1].fc = <<>>

\* Delete of a record with hooks on the DB of Session(SkipHooks: true,
\* NewDB: true): the statement has skip-hooks false, and BeforeDelete has
\* been invoked
C28_Witness ==
    /\ OnSkipHooksSession
    /\ ret.arg.NewDB
    /\ ~ret.arg.Initialized
    /\ stack[1].op = "Delete"
    /\ stmts[dbs[stack[1].db].Statement].Dest = "hooked"
    /\ ~stmts[dbs[stack[1].db].Statement].SkipHooks
    /\ Len(stack[1].fc) = 1
    /\ Handlers("Delete")[stack[1].pc] = "gorm:delete_before_associations"

\* the calls of the hook that a run has made with the session tx
RECURSIVE CallsWith(_, _)
CallsWith(fc, tx) ==
    IF fc = <<>> THEN <<>>
    ELSE IF fc[1].tx = tx
         THEN <<fc[1]>> \o CallsWith(Tail(fc), tx)
         ELSE CallsWith(Tail(fc), tx)

\* the elements of the value before the first one that cannot be addressed
Addressable(rv) ==
    IF \A i \in DOMAIN rv : rv[i]
    THEN Len(rv)
    ELSE (CHOOSE i \in DOMAIN rv : ~rv[i] /\ \A j \in 1 .. (i - 1) : rv[j]) - 1

\* the error err is or wraps the error named e
Wraps(err, e) == \E i \in DOMAIN err.msg : err.msg[i] = e

\* the handlers that call callMethod
HookHandlers ==
    {"gorm:before_delete", "gorm:after_delete", "gorm:after_query"}

\* what callMethod has done in the runs ss, over the DBs ds and the
\* statements sts
CallMethodDone(ss, ds, sts) ==
    \A n \in DOMAIN ss :
        LET f == ss[n]
            st == sts[ds[f.db].Statement]
            rv == f.ReflectValue
        IN  \A k \in DOMAIN f.fc :
                LET tx == f.fc[k].tx
                    cs == CallsWith(f.fc, tx)
                    done == f.hook # tx
                    last == f.fc[Len(f.fc)].tx = tx
                IN  /\ tx > f.db
                    /\ ds[tx].clone = 1
                    /\ ds[tx].Statement = ds[f.db].Statement
                    /\ ds[tx].Config # ds[f.db].Config
                    /\ IF Accepts(st.Dest) \/ Kind(st.Dest) = "struct"
                       THEN /\ Len(cs) = 1
                            /\ Accepts(st.Dest) \/ rv[1]
                       ELSE /\ \A i \in DOMAIN cs :
                                   cs[i].idx = i - 1 /\ rv[i]
                            /\ Len(cs) <= Addressable(rv)
                            /\ done => Len(cs) = Addressable(rv)
                            /\ (done /\ last /\ f.hook = 0) =>
                                   st.CurDestIndex = Addressable(rv)
                            /\ (done /\ Addressable(rv) < Len(rv)) =>
                                   Wraps(ds[f.db].Error, "ErrInvalidValue")

\* C29: callMethod calls the hook with a new session (NewDB) of the DB of
\* the run. A value that accepts the hook as a whole gets one call. Of a
\* slice of n elements that can be addressed each gets one call, in the
\* order of the index, the current-destination index being 0..n-1 at the
\* calls and n after them, whether or not a call has left an error on the
\* DB. A struct gets one call on its address. A struct or an element that
\* cannot be addressed gets no call and adds InvalidValue, and the elements
\* after it get no call.
C29_CallMethod ==
    [][ /\ CallMethodDone(stack', dbs', stmts')
        /\ (/\ stack # <<>>
            /\ Top.pc <= Len(Handlers(Top.op))
            /\ Handlers(Top.op)[Top.pc] \in HookHandlers
            /\ Top.hook = 0
            /\ Len(stack') = Len(stack)
            /\ Len(dbs') > Len(dbs)) =>
               LET st == stmts[dbs[Top.db].Statement]
                   rv == Top.ReflectValue
                   after == stack'[Len(stack)]
               IN  /\ Len(dbs') = Len(dbs) + 1
                   /\ (~Accepts(st.Dest) /\ Len(rv) > 0 /\ ~rv[1]) =>
                          /\ after.fc = Top.fc
                          /\ after.pc = Top.pc + 1
                          /\ Wraps(dbs'[Top.db].Error, "ErrInvalidValue")
                   /\ (~Accepts(st.Dest) /\ Len(rv) = 0) =>
                          /\ after.fc = Top.fc
                          /\ after.pc = Top.pc + 1
                          /\ stmts'[dbs[Top.db].Statement].CurDestIndex = 0
                          /\ dbs'[Top.db].Error = dbs[Top.db].Error
                   /\ (Accepts(st.Dest) \/ (Len(rv) > 0 /\ rv[1])) =>
                          Len(after.fc) = Len(Top.fc) + 1
      ]_vars

\* AfterFind on a slice of two records: the hook was called on both, at
\* index 0 and 1, though a call left its error on the DB; the index is 2
C29_Witness ==
    /\ Len(stack) = 1
    /\ Top.op = "Query"
    /\ Top.pc > Len(Handlers(Top.op))
    /\ Top.ReflectValue = <<TRUE, TRUE>>
    /\ Len(Top.fc) = 2
    /\ Top.fc[1].tx = Top.fc[2].tx
    /\ Top.fc[1].idx = 0
    /\ Top.fc[2].idx = 1
    /\ dbs[Top.db].Error = Err("hook failed")
    /\ stmts[dbs[Top.db].Statement].CurDestIndex = 2
    /\ Len(log) = Top.log0 + 1

====
